---- MODULE Spec2Model ----
\* Verification model of the OpenPeerPower supervisor orchestration core:
\*   - SnapshotManager (supervisor/snapshots/__init__.py): the operations
\*     step by step, and what a snapshot stores and a full restore restores
\*   - the application and container watchdog probes of Tasks
\*     (supervisor/misc/tasks.py)
\*   - the lock discipline and update() of OpenPeerPowerCore
\*     (supervisor/openpeerpower/core.py)
\* The program runs on one asyncio event loop: code between two awaits is
\* atomic, so every action below runs from one suspension point to the next.
EXTENDS Integers, Sequences, FiniteSets, TLC

\* ------------------------------------------------------------------ bounds
MaxCalls == 2
MaxAddons == 2
MaxInvocations == 2
\* wait_boot, in poll intervals of _block_till_run
WaitBoot == 2
\* the polls of one wait that are followed
MaxPolls == 5
\* the time units of the scheduler that are followed
MaxClock == 3

Calls == 1..MaxCalls
Addons == 1..MaxAddons
Invocations == 1..MaxInvocations

\* ------------------------------------------------------------- constants
\* tasks.py:19
OPP_WATCHDOG_API == 0
\* the keys of Tasks._cache: the API key and the add-on slugs
CacheKeys == {OPP_WATCHDOG_API} \cup Addons

VARIABLES
    \* --- SnapshotManager
    coreState,      \* sys_core.state
    lock,           \* SnapshotManager.lock.locked()
    snapshots_obj,  \* slugs registered in the catalog
    calls,          \* one record per call of do_snapshot_* / do_restore_*
    appRunning,     \* the primary application container runs
    \* --- Tasks (application watchdog probes)
    cache,          \* Tasks._cache, missing key read as 0
    last,           \* per key: the result of the latest performed check
    tick,           \* per key: what the latest tick of its probe did
    \* --- OpenPeerPowerCore
    coreLock,       \* OpenPeerPowerCore.lock.locked()
    invs,           \* one record per invocation of a core operation
    \* --- what the snapshots hold and what they are taken from
    installed,      \* slugs of sys_addons.installed
    folderData,     \* contents of each data folder
    archived,       \* contents of the snapshot that is followed
    lastOp,         \* the latest snapshot operation and its result
    \* --- OpenPeerPowerCore.update
    version,        \* sys_openpeerpower.version, the version of the instance
    errorState,     \* OpenPeerPowerCore._error_state
    lastUpdate,     \* the latest call of update() and what it did
    \* --- Tasks (container watchdog probes)
    dockerTick,     \* the latest tick of a container probe: what it saw
                    \* of each component it visited and what it issued
    \* --- the supervisor and its core
    stopTask,       \* the task of sys_core.stop() a supervisor update creates
    \* --- OpenPeerPowerCore._block_till_run
    boot,           \* the wait for the primary application to become ready
    \* --- Tasks (add-on refresh, observer application probe)
    addonInfo,      \* per add-on: state, watchdog, in_progress, running
    observer,       \* the observer plugin: in_progress, what /ping answers
    observerLast,   \* the result of the latest runtime check of the observer
    observerTick,   \* what the latest tick of the observer probe did
    lastTask,       \* the scheduled task that ran in the latest step
    \* --- Scheduler
    clock,          \* the time of the event loop, in units
    sched,          \* per registered task: its timer and its firings
    \* --- the container of the primary application
    container,      \* is_failed, watchdog, in_progress, running
    \* --- Tasks._refresh_addon, statement by statement
    refresh,        \* the add-on the run is at and what is_running() read
    \* --- SnapshotManager.reload, get, remove, import_snapshot
    backup,         \* slug -> the archive stored under path_backup
    reloading,      \* the reload in progress and the loads it waits for
    importing,      \* the import in progress
    lastGet,        \* the last get(slug) and what it returned
    \* --- APIProxy.websocket
    ws              \* connection -> the handler serving it

snapVars == <<coreState, lock, snapshots_obj, calls, appRunning>>
taskVars == <<cache, last, tick>>
coreVars == <<coreLock, invs>>
dataVars == <<installed, folderData, archived, lastOp>>
updateVars == <<version, errorState, lastUpdate>>
dockerVars == <<dockerTick>>
lifeVars == <<stopTask>>
bootVars == <<boot>>
maintVars == <<addonInfo, observer, observerLast, observerTick, lastTask>>
schedVars == <<clock, sched>>
recoverVars == <<container>>
raceVars == <<refresh>>
catalogVars == <<backup, reloading, importing, lastGet>>
proxyVars == <<ws>>
moreVars == <<lifeVars, bootVars, maintVars, schedVars, recoverVars, raceVars,
             catalogVars, proxyVars>>
vars == <<coreState, lock, snapshots_obj, calls, appRunning,
          cache, last, tick, coreLock, invs,
          installed, folderData, archived, lastOp,
          version, errorState, lastUpdate, dockerTick,
          stopTask, boot,
          addonInfo, observer, observerLast, observerTick, lastTask,
          clock, sched, container, refresh,
          backup, reloading, importing, lastGet, ws>>

\* ====================================================== SnapshotManager

SNAPSHOT_FULL == "full"
SNAPSHOT_PARTIAL == "partial"
FOLDER_OPENPEERPOWER == "openpeerpower"

\* The snapshots found on disk by load(): one protected full snapshot and
\* one unprotected partial snapshot.
StoredSnapshots == {"fullpw", "part"}
SysType(s) == IF s = "fullpw" THEN SNAPSHOT_FULL ELSE SNAPSHOT_PARTIAL
Protected(s) == s = "fullpw"
Passwords == {"good", "bad"}
Folders == {FOLDER_OPENPEERPOWER, "share"}

\* slug of the snapshot created by call c (create_slug(name, date_str))
NewSlug(c) == "snap" \o ToString(c)

SnapshotOps == {"do_snapshot_full", "do_snapshot_partial"}
RestoreOps == {"do_restore_full", "do_restore_partial"}

\* Snapshot.set_password: TRUE iff the password opens the archive
SetPassword(s, password) == password = "good"

\* self.lock.locked(), the first guard of the four operations
LockedNotAsked == FALSE
Locked == lock

\* The add-on slugs a caller may name: the installed add-ons and one slug
\* that is not installed.
UnknownAddon == MaxAddons + 1
AddonSlugs == Addons \cup {UnknownAddon}
\* sys_addons.get(slug) and addon.is_installed
IsInstalled(slug) == slug \in installed

\* addon_list of do_snapshot_partial: the requested add-ons that are found
\* and installed; the others are skipped with a warning.
AddonListUnfiltered(addons) == addons
AddonList(addons) == {a \in addons : IsInstalled(a)}

\* The lock after "await self.lock.acquire()" returned.
AcquireForgotten == lock
Acquired == TRUE

\* The lock after "self.lock.release()" in the finally block; ok: the body
\* completed without raising.
KeptOnError(ok) == ~ok
Released(ok) == FALSE

\* sys_core.state as the finally block leaves it.
StateElseOnly(ok) == IF ok THEN "RUNNING" ELSE "FREEZE"
StateFinally(ok) == "RUNNING"

IdleCall == [pc |-> "idle", op |-> "none", snap |-> "none", password |-> "none",
             addons |-> {}, todo |-> <<>>, trace |-> <<>>,
             task |-> "none", result |-> "pending", reason |-> "none",
             seen_running |-> "none", seen_api |-> "none"]

\* The awaited and synchronous steps inside "async with snapshot", in the
\* order of the code, for the arguments of the call.
StepsSnapshotFull ==
    <<"aenter", "store_addons", "store_folders", "aexit">>

StepsSnapshotPartial(addon_list, folders) ==
    <<"aenter">>
    \o (IF addon_list # {} THEN <<"store_addons">> ELSE <<>>)
    \o (IF folders # {} THEN <<"store_folders">> ELSE <<>>)
    \o <<"aexit">>

StepsRestoreFullAddonsFirst ==
    <<"aenter", "shutdown", "restore_folders", "restore_dockerconfig",
      "restore_openpeerpower", "create_task", "restore_repositories",
      "restore_addons", "uninstall_delta", "await_task", "core_start", "aexit">>
StepsRestoreFull ==
    <<"aenter", "shutdown", "restore_folders", "restore_dockerconfig",
      "restore_openpeerpower", "create_task", "restore_repositories",
      "uninstall_delta", "restore_addons", "await_task", "core_start", "aexit">>

StepsRestorePartialAwaitFirst(openpeerpower, addons, folders) ==
    <<"aenter", "restore_dockerconfig">>
    \o (IF FOLDER_OPENPEERPOWER \in folders
        THEN <<"core_stop", "restore_openpeerpower">> ELSE <<>>)
    \o (IF folders # {} THEN <<"restore_folders">> ELSE <<>>)
    \o (IF openpeerpower THEN <<"create_task", "await_task">> ELSE <<>>)
    \o (IF addons # {}
        THEN <<"restore_repositories", "restore_addons">> ELSE <<>>)
    \o <<"is_running", "core_start", "check_api_state", "core_restart", "aexit">>
StepsRestorePartial(openpeerpower, addons, folders) ==
    <<"aenter", "restore_dockerconfig">>
    \o (IF FOLDER_OPENPEERPOWER \in folders
        THEN <<"core_stop", "restore_openpeerpower">> ELSE <<>>)
    \o (IF folders # {} THEN <<"restore_folders">> ELSE <<>>)
    \o (IF openpeerpower THEN <<"create_task">> ELSE <<>>)
    \o (IF addons # {}
        THEN <<"restore_repositories", "restore_addons">> ELSE <<>>)
    \o (IF openpeerpower THEN <<"await_task">> ELSE <<>>)
    \o <<"is_running", "core_start", "check_api_state", "core_restart", "aexit">>

Steps(op, openpeerpower, addons, folders) ==
    CASE op = "do_snapshot_full" -> StepsSnapshotFull
      [] op = "do_snapshot_partial" ->
            StepsSnapshotPartial(AddonList(addons), folders)
      [] op = "do_restore_full" -> StepsRestoreFull
      [] op = "do_restore_partial" ->
            StepsRestorePartial(openpeerpower, addons, folders)

\* Job(conditions=[...]): the decorator evaluates the conditions against
\* host status (free space, health, connectivity, running) before the body;
\* the environment decides whether they hold.
JobConditionsHold(ok) == ok

\* The value a call returns when it does not succeed.
Failure(op) == IF op \in SnapshotOps THEN "None" ELSE "False"
Success(op) == IF op \in SnapshotOps THEN "snapshot" ELSE "True"

\* What stays of a call once it has returned: its result, the reason
\* of a failure, the statements its exit ran and the task it created
\* when that task is still running.
Returned(r, result, reason, exit) ==
    [IdleCall EXCEPT !.pc = "done", !.trace = exit,
                     !.task = IF r.task = "running" THEN "running" ELSE "none",
                     !.result = result, !.reason = reason]

GuardFullOnly(op, snap, password, ok) ==
    IF ~JobConditionsHold(ok) THEN "conditions"
    ELSE IF Locked THEN "locked"
    ELSE IF op = "do_restore_full" /\ SysType(snap) # SNAPSHOT_FULL THEN "type"
    ELSE IF op = "do_restore_full" /\ Protected(snap) /\ ~SetPassword(snap, password)
         THEN "password"
    ELSE "pass"

GuardNoType(op, snap, password, ok) ==
    IF ~JobConditionsHold(ok) THEN "conditions"
    ELSE IF Locked THEN "locked"
    ELSE IF op \in RestoreOps /\ Protected(snap) /\ ~SetPassword(snap, password)
         THEN "password"
    ELSE "pass"

\* The guards of the four operations, in the order of the code; "pass" when
\* the call goes on to the try block.
Guard(op, snap, password, ok) ==
    IF ~JobConditionsHold(ok) THEN "conditions"
    ELSE IF Locked THEN "locked"
    ELSE IF op = "do_restore_full" /\ SysType(snap) # SNAPSHOT_FULL THEN "type"
    ELSE IF op \in RestoreOps /\ Protected(snap) /\ ~SetPassword(snap, password)
         THEN "password"
    ELSE "pass"

\* A call of do_snapshot_full / do_snapshot_partial / do_restore_full /
\* do_restore_partial up to its first suspension: the guards, then
\* state = FREEZE and lock.acquire(), which returns at once on a free lock
\* and waits on a held one.
Call(c, op, snap, password, openpeerpower, addons, folders, ok) ==
    /\ calls[c].pc = "idle"
    /\ LET g == Guard(op, snap, password, ok)
           r == [calls[c] EXCEPT !.op = op, !.snap = snap, !.password = password]
       IN IF g # "pass"
          THEN /\ calls' = [calls EXCEPT ![c] =
                               Returned(r, IF g = "conditions" THEN "job_error"
                                           ELSE Failure(op), g, <<>>)]
               /\ UNCHANGED <<coreState, lock>>
          ELSE /\ coreState' = "FREEZE"
               /\ lock' = (lock \/ Acquired)
               /\ calls' = [calls EXCEPT ![c] =
                     [r EXCEPT !.pc = IF lock THEN "acquire" ELSE "run",
                               !.addons = AddonList(addons),
                               !.todo = Steps(op, openpeerpower, addons, folders),
                               !.trace = IF lock THEN <<"freeze">>
                                         ELSE <<"freeze", "acquire">>]]
    /\ UNCHANGED <<snapshots_obj, appRunning>>
    /\ UNCHANGED taskVars
    /\ UNCHANGED coreVars
    /\ UNCHANGED dataVars
    /\ UNCHANGED updateVars
    /\ UNCHANGED dockerVars
    /\ UNCHANGED moreVars

\* "else: self.snapshots_obj[snapshot.slug] = snapshot": the snapshot
\* operations register the new snapshot when the try block completed.
RegisteredInFinally(op, ok) == op \in SnapshotOps
Registered(op, ok) == ok /\ op \in SnapshotOps

\* The two statements of the finally block, in the order of the code:
\* "self.sys_core.state = CoreState.RUNNING", then "self.lock.release()".
FinallyReleaseFirst == <<"release", "running">>
FinallyOrder == <<"running", "release">>

\* except / else / finally of the four operations: the result, the catalog
\* entry of a completed snapshot, state = RUNNING, lock.release().
Finish(c, ok) ==
    LET r == calls[c]
    IN /\ calls' = [calls EXCEPT ![c] =
              Returned(r, IF ok THEN Success(r.op) ELSE Failure(r.op),
                       IF ok THEN "none" ELSE "error", FinallyOrder)]
       /\ snapshots_obj' = IF Registered(r.op, ok)
                           THEN snapshots_obj \cup {NewSlug(c)}
                           ELSE snapshots_obj
       /\ coreState' = StateFinally(ok)
       /\ lock' = Released(ok)

\* The steps a step's result takes off the rest of the body.
Skips(s, running, api) ==
    CASE s = "is_running" /\ running -> {"core_start"}
      [] s = "check_api_state" /\ api -> {"core_restart"}
      [] OTHER -> {}

\* The primary application after step s completed.
AppAfter(s, running) ==
    CASE s \in {"shutdown", "core_stop"} -> FALSE
      [] s \in {"core_start", "core_restart"} -> TRUE
      [] OTHER -> running

\* One step of the body of a running call: the statement at the head of
\* todo completes (or raises, when raises is TRUE). exited: the container
\* of the primary application is found exited by is_running(); api: the
\* answer of check_api_state(). A raise leaves through __aexit__ of the
\* snapshot, which changes nothing of the manager, and then through except
\* and finally: the step takes the whole exit.
Step(c, raises, exited, api) ==
    LET r == calls[c]
        s == Head(r.todo)
        fails == raises \/ (s = "await_task" /\ r.task = "failed")
        running == IF s = "is_running" /\ exited THEN FALSE ELSE appRunning
        rest == SelectSeq(Tail(r.todo),
                          LAMBDA x : x \notin Skips(s, running, api))
    IN /\ r.pc \in {"acquire", "run"}
       /\ UNCHANGED taskVars
       /\ UNCHANGED coreVars
       /\ UNCHANGED dataVars
       /\ UNCHANGED updateVars
       /\ UNCHANGED dockerVars
       /\ UNCHANGED moreVars
       /\ IF r.pc = "acquire"
          THEN \* lock.acquire() returns once the lock is free
               /\ ~lock
               /\ lock' = Acquired
               /\ calls' = [calls EXCEPT ![c].pc = "run",
                                         ![c].trace = Append(@, "acquire")]
               /\ UNCHANGED <<coreState, snapshots_obj, appRunning>>
          ELSE /\ s = "await_task" => r.task # "running"
               /\ IF fails
                  THEN /\ Finish(c, FALSE)
                       /\ UNCHANGED appRunning
                  ELSE IF s = "aexit"
                  THEN /\ Finish(c, TRUE)
                       /\ UNCHANGED appRunning
                  ELSE /\ calls' = [calls EXCEPT
                                       ![c].todo = rest,
                                       ![c].trace = Append(@, s),
                                       ![c].task = IF s = "create_task"
                                                   THEN "running" ELSE @,
                                       ![c].seen_running =
                                            IF s = "is_running" THEN running ELSE @,
                                       ![c].seen_api =
                                            IF s = "check_api_state" THEN api ELSE @]
                       /\ appRunning' = AppAfter(s, running)
                       /\ UNCHANGED <<coreState, lock, snapshots_obj>>

\* The primary-application update started by sys_create_task(...) ends.
TaskEnds(c, ok) ==
    /\ calls[c].task = "running"
    /\ calls' = [calls EXCEPT ![c].task = IF calls[c].pc = "done" THEN "none"
                                          ELSE IF ok THEN "ok" ELSE "failed"]
    /\ UNCHANGED <<coreState, lock, snapshots_obj, appRunning>>
    /\ UNCHANGED taskVars
    /\ UNCHANGED coreVars
    /\ UNCHANGED dataVars
    /\ UNCHANGED updateVars
    /\ UNCHANGED dockerVars
    /\ UNCHANGED moreVars

\* ================================================================ Tasks
\* The two application probes. A tick is one run of a probe; the scheduler
\* never runs a probe again before its previous run ended.

\* What a tick did for a key: the application check it performed, if any,
\* the outcome of the restart() it invoked, if any ("caught": restart
\* raised and the except clause took it; "raised": it left the probe), and
\* whether it went on to rebuild().
NoTick == [check |-> "none", restart |-> "none", rebuild |-> "none"]
RestartOutcomes == {"ok", "caught", "raised"}

\* The counts of misses at which a probe writes the count to the cache
\* and returns: "if retry_scan == 1".
RecordedMissesTwo == {1, 2}
RecordedMisses == {1}

\* "retry_scan += 1; if retry_scan == 1": the first miss is only recorded
FirstMissEscalates(retry_scan) == FALSE
FirstMiss(retry_scan) == retry_scan + 1 \in RecordedMisses

\* "finally: self._cache[key] = 0" after restart()
ResetElseOnly(outcome, before) == IF outcome = "ok" THEN 0 ELSE before
AfterRestart(outcome, before) == 0

\* What the probes issue after restart(): "except ...: log, capture" and
\* "finally: self._cache[key] = 0" end the escalation, whatever restart()
\* did.
RebuildsAfterRestart(k, outcome) ==
    IF k = OPP_WATCHDOG_API /\ outcome = "caught" THEN "issued" ELSE "none"
AfterRestartFails(k, outcome) == "none"

\* The body both probes run for one component once its guards passed:
\* st is cache, last and tick so far, k the key, in_progress and up what
\* the probe observes, outcome what restart() would do. The result also
\* says whether the probe goes on ("next") or ends ("return", "raise").
Probe(st, k, in_progress, up, outcome) ==
    LET retry_scan == st.cache[k]
    IN IF in_progress
       THEN [st EXCEPT !.flow = "next"]
       ELSE IF up
       THEN [st EXCEPT !.flow = "next",
                       !.last[k] = "ok",
                       !.tick[k] = [NoTick EXCEPT !.check = "ok"]]
       ELSE IF FirstMiss(retry_scan)
       THEN [st EXCEPT !.flow = "return",
                       !.cache[k] = retry_scan + 1,
                       !.last[k] = "fail",
                       !.tick[k] = [NoTick EXCEPT !.check = "fail"]]
       ELSE [st EXCEPT !.flow = IF outcome = "raised" THEN "raise" ELSE "next",
                       !.cache[k] = AfterRestart(outcome, @),
                       !.last[k] = "fail",
                       !.tick[k] = [check |-> "fail", restart |-> outcome,
                                    rebuild |-> AfterRestartFails(k, outcome)]]

TickStart == [cache |-> cache, last |-> last,
              tick |-> [k \in CacheKeys |-> NoTick], flow |-> "next"]

\* Tasks._watchdog_openpeerpower_api: one tick. is_failed, watchdog,
\* error_state, in_progress, api are what the tick reads from the primary
\* application; outcome is what core.restart() does when it is invoked.
ApiTick(is_failed, watchdog, error_state, in_progress, api, outcome) ==
    IF ~is_failed \/ ~watchdog \/ error_state
    THEN TickStart
    ELSE Probe(TickStart, OPP_WATCHDOG_API, in_progress, api, outcome)

watchdog_openpeerpower_api(is_failed, watchdog, error_state, in_progress, api, outcome) ==
    LET st == ApiTick(is_failed, watchdog, error_state, in_progress, api, outcome)
    IN /\ cache' = st.cache
       /\ last' = st.last
       /\ tick' = st.tick
       /\ UNCHANGED snapVars
       /\ UNCHANGED coreVars
       /\ UNCHANGED dataVars
       /\ UNCHANGED updateVars
       /\ UNCHANGED dockerVars
       /\ UNCHANGED moreVars

\* What one tick of the add-on probe reads from an add-on, and what
\* addon.restart() does when it is invoked.
Healthy == [watchdog |-> TRUE, state |-> "started", in_progress |-> FALSE,
            up |-> TRUE, restart |-> "ok"]
AddonObservations ==
    {Healthy,
     [Healthy EXCEPT !.watchdog = FALSE],
     [Healthy EXCEPT !.state = "stopped"],
     [Healthy EXCEPT !.in_progress = TRUE, !.up = FALSE]}
    \cup {[Healthy EXCEPT !.up = FALSE, !.restart = o] : o \in RestartOutcomes}

\* An add-on the probe has to check: watched, recorded as started, idle.
Due(o) == o.watchdog /\ o.state = "started" /\ ~o.in_progress

\* The probe left the loop before add-on i: the add-ons from i on that
\* were due are noted as skipped.
Skipped(i, obs, st) ==
    [st EXCEPT !.tick = [k \in CacheKeys |->
                            IF k \in Addons /\ k >= i /\ Due(obs[k])
                            THEN [NoTick EXCEPT !.check = "skipped"]
                            ELSE st.tick[k]]]

\* the loop "for addon in self.sys_addons.installed" from add-on i on
RECURSIVE AddonLoop(_, _, _)
AddonLoop(i, obs, st) ==
    IF i > MaxAddons THEN st
    ELSE IF st.flow # "next" THEN Skipped(i, obs, st)
    ELSE IF ~obs[i].watchdog \/ obs[i].state # "started"
    THEN AddonLoop(i + 1, obs, st)
    ELSE AddonLoop(i + 1, obs,
                   Probe(st, i, obs[i].in_progress, obs[i].up, obs[i].restart))

\* Tasks._watchdog_addon_application: one tick over the installed add-ons.
watchdog_addon_application(obs) ==
    LET st == AddonLoop(1, obs, TickStart)
    IN /\ cache' = st.cache
       /\ last' = st.last
       /\ tick' = st.tick
       /\ UNCHANGED snapVars
       /\ UNCHANGED coreVars
       /\ UNCHANGED dataVars
       /\ UNCHANGED updateVars
       /\ UNCHANGED dockerVars
       /\ UNCHANGED moreVars

NextTasks ==
    \/ \E is_failed \in BOOLEAN, watchdog \in BOOLEAN, error_state \in BOOLEAN,
          in_progress \in BOOLEAN, api \in BOOLEAN, outcome \in RestartOutcomes :
            watchdog_openpeerpower_api(is_failed, watchdog, error_state,
                                       in_progress, api, outcome)
    \/ \E obs \in [Addons -> AddonObservations] : watchdog_addon_application(obs)

\* ==================================================== OpenPeerPowerCore
\* The operations on the primary application and the lock they share.

CoreOps == {"install_landingpage", "install", "update", "start", "stop",
            "restart", "rebuild"}

\* the operations decorated with @process_lock
AllButStop(op) == op \in CoreOps \ {"stop"}
ProcessLocked(op) == op \in CoreOps

\* process_lock: a call on a held lock fails fast, it is not queued
FailsFast(op) == ProcessLocked(op) /\ coreLock

IdleInvocation == [pc |-> "idle", op |-> "none", result |-> "pending"]

\* An operation is invoked: process_lock turns it away when the lock is
\* held, else takes the lock; the Job conditions of update() are evaluated
\* under the lock (job: they hold) and a failing one ends the call with the
\* job error before the body; else the body starts.
Invoke(i, op, job) ==
    /\ invs[i].pc = "idle"
    /\ IF FailsFast(op)
       THEN /\ invs' = [invs EXCEPT ![i] = [pc |-> "done", op |-> op,
                                            result |-> "in_progress"]]
            /\ UNCHANGED coreLock
       ELSE IF op = "update" /\ ~JobConditionsHold(job)
       THEN /\ invs' = [invs EXCEPT ![i] = [pc |-> "done", op |-> op,
                                            result |-> "job_error"]]
            /\ UNCHANGED coreLock
       ELSE /\ invs' = [invs EXCEPT ![i] = [pc |-> "body", op |-> op,
                                            result |-> "pending"]]
            /\ coreLock' = (coreLock \/ ProcessLocked(op))
    /\ UNCHANGED snapVars
    /\ UNCHANGED taskVars
    /\ UNCHANGED dataVars
    /\ UNCHANGED updateVars
    /\ UNCHANGED dockerVars
    /\ UNCHANGED moreVars

\* The body of an operation ends, by returning or by raising; the lock is
\* released on both paths.
Complete(i, raises) ==
    /\ invs[i].pc = "body"
    /\ invs' = [invs EXCEPT ![i].pc = "done",
                            ![i].result = IF raises THEN "raised" ELSE "returned"]
    /\ coreLock' = IF ProcessLocked(invs[i].op) THEN FALSE ELSE coreLock
    /\ UNCHANGED snapVars
    /\ UNCHANGED taskVars
    /\ UNCHANGED dataVars
    /\ UNCHANGED updateVars
    /\ UNCHANGED dockerVars
    /\ UNCHANGED moreVars

NextCore ==
    \/ \E i \in Invocations, op \in CoreOps, job \in BOOLEAN : Invoke(i, op, job)
    \/ \E i \in Invocations, raises \in BOOLEAN : Complete(i, raises)

\* =============================================== Tasks: container probes
\* A tick of a container probe visits one component, the add-on probe all
\* installed add-ons. What it did is kept per visited component, in the
\* order of the visits.

Plugins == {"dns", "audio", "cli", "observer", "multicast"}
\* start() returns; raises the error the probe catches; raises another
StartOutcomes == {"ok", "caught", "raised"}

\* what a probe may see of a component
Seen == [is_failed : BOOLEAN, watchdog : BOOLEAN, error_state : BOOLEAN,
         in_progress : BOOLEAN, running : BOOLEAN, started : BOOLEAN]
NotVisited == [visited |-> FALSE]
Visit(o, actions, start) ==
    [visited |-> TRUE, watchdog |-> o.watchdog, running |-> o.running,
     in_progress |-> o.in_progress, actions |-> actions, start |-> start]

\* the guards of _watchdog_openpeerpower_docker
CoreIdleAndUp(o) == ~o.in_progress /\ o.running
CoreIdleAndDown(o) == ~(o.in_progress \/ o.running)
CoreNeedsStartUnwatched(o) ==
    o.is_failed /\ ~o.error_state /\ CoreIdleAndDown(o)
CoreNeedsStart(o) ==
    /\ ~(~o.is_failed \/ ~o.watchdog \/ o.error_state)
    /\ CoreIdleAndDown(o)

\* the guard of the plugin probes
PluginNeedsStartInProgress(o) == ~o.running
PluginNeedsStart(o) == ~(o.running \/ o.in_progress)

\* the guards of _watchdog_addon_docker
AddonNeedsStartUnwatched(o) ==
    ~o.running /\ ~(o.in_progress \/ ~o.started)
AddonNeedsStart(o) ==
    /\ ~(~o.watchdog \/ o.running)
    /\ ~(o.in_progress \/ ~o.started)

\* What a probe issues on a component after its start(): the probe of the
\* primary application goes on to rebuild() when it caught the error of
\* start(); the others issue nothing more.
AfterStartRebuilds(component, outcome) ==
    IF outcome = "caught" THEN <<"rebuild">> ELSE <<>>
AfterStart(component, outcome) ==
    IF component = "openpeerpower" /\ outcome = "caught"
    THEN <<"rebuild">> ELSE <<>>

\* the actions a probe issues on a component that needs a start
Recover(component, before, outcome) ==
    Visit(before.seen, before.actions \o <<"start">> \o AfterStart(component, outcome),
          outcome)

\* exit: how the probe ended, "return" or "raise" (an error left it)
Tick(probe, seen, exit) == [probe |-> probe, seen |-> seen, exit |-> exit]

\* How _watchdog_openpeerpower_docker ends once it called start(): the
\* try block takes the error named in its except clause only, and
\* rebuild() is awaited outside the try block.
CoreProbeExit(outcome, rebuild_raises) ==
    IF outcome = "raised" \/ (outcome = "caught" /\ rebuild_raises)
    THEN "raise" ELSE "return"

\* How a plugin probe ends once its guard passed: loop_detection() of the
\* dns probe is awaited outside the try block, and the try block takes the
\* error named in its except clause only.
PluginProbeExit(plugin, loop_raises, outcome) ==
    IF (plugin = "dns" /\ loop_raises) \/ outcome = "raised"
    THEN "raise" ELSE "return"

\* How _watchdog_addon_docker ends: an error of addon.start() that is not
\* an AddonsError leaves the loop and the probe.
AddonProbeExit(seen) ==
    IF \E a \in DOMAIN seen : seen[a].visited /\ seen[a].start = "raised"
    THEN "raise" ELSE "return"

\* Tasks._watchdog_openpeerpower_docker: one tick; rebuild_raises: what
\* core.rebuild() does when it is called
CoreTick(o, outcome, rebuild_raises) ==
    IF CoreNeedsStart(o)
    THEN Tick("openpeerpower",
              <<Recover("openpeerpower", [seen |-> o, actions |-> <<>>],
                        outcome)>>,
              CoreProbeExit(outcome, rebuild_raises))
    ELSE Tick("openpeerpower", <<Visit(o, <<>>, "none")>>, "return")

watchdog_openpeerpower_docker(o, outcome, rebuild_raises) ==
    /\ dockerTick' = CoreTick(o, outcome, rebuild_raises)
    /\ UNCHANGED snapVars
    /\ UNCHANGED taskVars
    /\ UNCHANGED coreVars
    /\ UNCHANGED dataVars
    /\ UNCHANGED updateVars
    /\ UNCHANGED moreVars

\* The probes of the plugins: _watchdog_dns_docker, which calls
\* loop_detection() before start(), _watchdog_audio_docker,
\* _watchdog_cli_docker, _watchdog_observer_docker,
\* _watchdog_multicast_docker. loop_raises: loop_detection() raises.
PluginDocker(plugin, o, loop_raises, outcome) ==
    /\ dockerTick' = Tick(plugin,
          <<IF ~PluginNeedsStart(o) THEN Visit(o, <<>>, "none")
            ELSE IF plugin = "dns" /\ loop_raises
            THEN Visit(o, <<"loop_detection">>, "none")
            ELSE Recover(plugin, [seen |-> o,
                                  actions |-> IF plugin = "dns"
                                              THEN <<"loop_detection">> ELSE <<>>],
                         outcome)>>,
          IF PluginNeedsStart(o) THEN PluginProbeExit(plugin, loop_raises, outcome)
          ELSE "return")
    /\ UNCHANGED snapVars
    /\ UNCHANGED taskVars
    /\ UNCHANGED coreVars
    /\ UNCHANGED dataVars
    /\ UNCHANGED updateVars
    /\ UNCHANGED moreVars

watchdog_dns_docker(o, loop_raises, outcome) ==
    PluginDocker("dns", o, loop_raises, outcome)
watchdog_audio_docker(o, outcome) == PluginDocker("audio", o, FALSE, outcome)
watchdog_cli_docker(o, outcome) == PluginDocker("cli", o, FALSE, outcome)
watchdog_observer_docker(o, outcome) ==
    PluginDocker("observer", o, FALSE, outcome)
watchdog_multicast_docker(o, outcome) ==
    PluginDocker("multicast", o, FALSE, outcome)

\* the loop "for addon in self.sys_addons.installed" of
\* _watchdog_addon_docker from add-on i on; an error of start() that is
\* not an AddonsError leaves the probe.
RECURSIVE AddonDockerLoop(_, _, _, _)
AddonDockerLoop(i, obs, outcomes, seen) ==
    IF i > MaxAddons THEN seen
    ELSE IF ~AddonNeedsStart(obs[i])
    THEN AddonDockerLoop(i + 1, obs, outcomes,
                         [seen EXCEPT ![i] = Visit(obs[i], <<>>, "none")])
    ELSE LET now == [seen EXCEPT ![i] =
                        Recover("addons", [seen |-> obs[i], actions |-> <<>>],
                                outcomes[i])]
         IN IF outcomes[i] = "raised" THEN now
            ELSE AddonDockerLoop(i + 1, obs, outcomes, now)

\* Tasks._watchdog_addon_docker: one tick over the installed add-ons
watchdog_addon_docker(obs, outcomes) ==
    /\ LET seen == AddonDockerLoop(1, obs, outcomes,
                                   [a \in Addons |-> NotVisited])
       IN dockerTick' = Tick("addons", seen, AddonProbeExit(seen))
    /\ UNCHANGED snapVars
    /\ UNCHANGED taskVars
    /\ UNCHANGED coreVars
    /\ UNCHANGED dataVars
    /\ UNCHANGED updateVars
    /\ UNCHANGED moreVars

\* What each probe reads: the probe of the primary application does not
\* look at the recorded state, the probes of the plugins look at running
\* and in_progress only, the probe of the add-ons does not look at
\* is_failed and error_state.
SeenOfCore == {o \in Seen : o.started}
SeenOfPlugin == {o \in Seen : o.is_failed /\ ~o.error_state /\ o.watchdog /\ o.started}
SeenOfAddon == {o \in Seen : o.is_failed /\ ~o.error_state}

\* An add-on as the add-on probe meets it: what the probe sees and what
\* start() would do. start() has an outcome to draw only on an add-on that
\* is down, idle and meant to run: on any other the conditions on running,
\* in_progress and state pass it by.
AddonCases ==
    {c \in [seen : SeenOfAddon, start : StartOutcomes] :
        (c.seen.running \/ c.seen.in_progress \/ ~c.seen.started) => c.start = "ok"}

NextDocker ==
    \/ \E o \in SeenOfCore, outcome \in StartOutcomes, rebuild_raises \in BOOLEAN :
            watchdog_openpeerpower_docker(o, outcome, rebuild_raises)
    \/ \E o \in SeenOfPlugin, loop_raises \in BOOLEAN, outcome \in StartOutcomes :
            watchdog_dns_docker(o, loop_raises, outcome)
    \/ \E o \in SeenOfPlugin, outcome \in StartOutcomes :
            watchdog_audio_docker(o, outcome)
    \/ \E o \in SeenOfPlugin, outcome \in StartOutcomes :
            watchdog_cli_docker(o, outcome)
    \/ \E o \in SeenOfPlugin, outcome \in StartOutcomes :
            watchdog_observer_docker(o, outcome)
    \/ \E o \in SeenOfPlugin, outcome \in StartOutcomes :
            watchdog_multicast_docker(o, outcome)
    \/ \E cases \in [Addons -> AddonCases] :
            watchdog_addon_docker([a \in Addons |-> cases[a].seen],
                                  [a \in Addons |-> cases[a].start])

InitDocker == dockerTick = Tick("none", <<>>, "return")

\* ============================================ OpenPeerPowerCore.update
\* update() from call to return; process_lock admits one operation on the
\* primary application at a time.

\* The versions an update is followed for: the landingpage, which
\* _block_till_run does not wait for, and two releases.
LandingpageVersion == "landingpage"
Versions == {LandingpageVersion, "v1", "v2"}

\* What _update(to_version) does: "ok"; "docker_error": instance.update()
\* raises DockerError; "run_error": instance.run() raises DockerError in
\* _start(); "crash": _block_till_run() gives up.
UpdateOutcomes == {"ok", "docker_error", "run_error", "crash"}

\* "if running: await self._start()": a stopped application is not
\* started; "if version == LANDINGPAGE: return": _block_till_run does not
\* wait for the landingpage, so it cannot give up on it.
Outcome(to_version, running, o) ==
    IF ~running /\ o \in {"run_error", "crash"} THEN "ok"
    ELSE IF to_version = LandingpageVersion /\ o = "crash" THEN "ok"
    ELSE o

\* the exception _update raises for an outcome
Raised(o) ==
    CASE o = "docker_error" -> "OpenPeerPowerUpdateError"
      [] o = "run_error" -> "OpenPeerPowerError"
      [] o = "crash" -> "OpenPeerPowerCrashError"
      [] OTHER -> "none"

\* _update(to_version) on the state st = [version, error_state]: a failed
\* instance.update() changes nothing; else the version is the new one and
\* _block_till_run(), when the application is started, sets or clears
\* _error_state.
InnerUpdate(st, to_version, running, o) ==
    IF o = "docker_error" THEN st
    ELSE [version |-> to_version,
          error_state |-> IF o = "crash" THEN TRUE
                          ELSE IF o = "ok" /\ running
                                  /\ to_version # LandingpageVersion THEN FALSE
                          ELSE st.error_state]

\* "rollback = self.sys_openpeerpower.version if not self.error_state else
\* None" and "if self.error_state and rollback:" after the failed update
RollbackWhenHealthyBefore(before, after) == ~before
Rollback(before, after) == after /\ ~before

\* the end of update() after _update(rollback): its exception leaves
\* update(), its return is the return of update()
AfterRollback(o) == IF o = "ok" THEN "returned" ELSE Raised(o)

NoUpdate == [target |-> "none", previous |-> "none", healthy |-> FALSE,
             attempts |-> <<>>, result |-> "none"]

\* OpenPeerPowerCore.update(version). job: the Job conditions hold;
\* running, exists: instance.is_running(), instance.exists(); first,
\* second: what _update(version) and _update(rollback) do.
update(target, job, running, exists, first, second) ==
    LET st0 == [version |-> version, error_state |-> errorState]
        o1 == Outcome(target, running, first)
        st1 == InnerUpdate(st0, target, running, o1)
        back == o1 # "ok" /\ Rollback(errorState, st1.error_state)
        o2 == Outcome(version, running, second)
        st2 == IF back THEN InnerUpdate(st1, version, running, o2) ELSE st1
        call == [NoUpdate EXCEPT !.target = target, !.previous = version,
                                 !.healthy = ~errorState]
    IN /\ IF ~JobConditionsHold(job)
          THEN /\ lastUpdate' = [call EXCEPT !.result = "OpenPeerPowerJobError"]
               /\ UNCHANGED <<version, errorState>>
          ELSE IF exists /\ target = version
          THEN /\ lastUpdate' = [call EXCEPT !.result = "returned"]
               /\ UNCHANGED <<version, errorState>>
          ELSE /\ version' = st2.version
               /\ errorState' = st2.error_state
               /\ lastUpdate' =
                     [call EXCEPT
                        !.attempts = <<[version |-> target, outcome |-> o1]>>
                           \o (IF back THEN <<[version |-> version, outcome |-> o2]>>
                               ELSE <<>>),
                        !.result = IF o1 = "ok" THEN "returned"
                                   ELSE IF back THEN AfterRollback(o2)
                                   ELSE "OpenPeerPowerUpdateError"]
       /\ UNCHANGED snapVars
       /\ UNCHANGED taskVars
       /\ UNCHANGED coreVars
       /\ UNCHANGED dataVars
       /\ UNCHANGED dockerVars
       /\ UNCHANGED moreVars

\* _block_till_run() at the end of start(), restart(), rebuild(): it sets
\* _error_state when the application does not come up and clears it when
\* the API answers.
block_till_run(crashes) ==
    /\ errorState' = crashes
    /\ lastUpdate' = NoUpdate
    /\ UNCHANGED version
    /\ UNCHANGED snapVars
    /\ UNCHANGED taskVars
    /\ UNCHANGED coreVars
    /\ UNCHANGED dataVars
    /\ UNCHANGED dockerVars
    /\ UNCHANGED moreVars

NextUpdate ==
    \/ \E target \in Versions, job \in BOOLEAN, running \in BOOLEAN,
          exists \in BOOLEAN, first \in UpdateOutcomes, second \in UpdateOutcomes :
            update(target, job, running, exists, first, second)
    \/ \E crashes \in BOOLEAN : block_till_run(crashes)

InitUpdate ==
    /\ version = "v1"
    /\ errorState = FALSE
    /\ lastUpdate = NoUpdate

\* ==================================================== snapshot contents
\* What do_snapshot_full, do_snapshot_partial and do_restore_full store
\* and restore. The snapshot lock admits one of them at a time, so each is
\* followed here from call to return in one step; add-ons are installed
\* and removed and folders are written between the operations.

Contents == {"old", "new"}

NoArchive == [type |-> "none", addons |-> {}, folders |-> <<>>]
NoOp == [op |-> "none", requested |-> {}, result |-> "none",
         removed |-> {}, failed |-> {}, raised |-> "none"]

\* Snapshot.store_addons(addon_list) and Snapshot.store_folders(folders):
\* the archive records the given add-ons and the contents of the given
\* folders as they are.
Archive(type, addon_list, folders) ==
    [type |-> type, addons |-> addon_list,
     folders |-> [f \in folders |-> folderData[f]]]

\* Snapshot.restore_folders(): every folder of the archive gets the
\* archived contents.
RestoreFolders(archive) ==
    [f \in Folders |-> IF f \in DOMAIN archive.folders
                       THEN archive.folders[f] ELSE folderData[f]]

\* "for addon in self.sys_addons.installed: if addon.slug in
\* snapshot.addon_list: continue; try: await addon.uninstall() except
\* AddonsError: warning": the add-ons that are installed afterwards;
\* failing are the add-ons whose uninstall() raises AddonsError.
UninstallNothing(addon_list, failing) == installed
UninstallDelta(addon_list, failing) ==
    {a \in installed : a \in addon_list \/ a \in failing}

\* "except AddonsError: _LOGGER.warning(...)": whether the AddonsError of
\* the add-ons in failed leaves the loop and the body.
LoopAbortsOnError(failed) == failed # {}
LoopAborts(failed) == FALSE

\* Snapshot.restore_addons(): the add-ons of the archive are installed.
RestoreAddons(now, archive) == now \cup archive.addons

\* The contents of one snapshot are followed: the first that is created.
FollowedSlug == NewSlug(1)

\* do_snapshot_full and do_snapshot_partial from call to return. type,
\* addons, folders: the snapshot asked for; ok: the Job conditions hold;
\* raises: a capture step raises.
Snapshot(op, type, requested, addon_list, folders, ok, raises) ==
    LET done == JobConditionsHold(ok) /\ ~raises
    IN /\ archived = NoArchive
       /\ archived' = IF done THEN Archive(type, addon_list, folders)
                      ELSE archived
       /\ snapshots_obj' = IF JobConditionsHold(ok) /\ Registered(op, ~raises)
                           THEN snapshots_obj \cup {FollowedSlug}
                           ELSE snapshots_obj
       /\ lastOp' = [NoOp EXCEPT !.op = op, !.requested = requested,
                                 !.result = IF ~JobConditionsHold(ok) THEN "job_error"
                                            ELSE IF raises THEN Failure(op)
                                            ELSE Success(op)]
       /\ UNCHANGED <<installed, folderData>>
       /\ UNCHANGED <<coreState, lock, calls, appRunning>>
       /\ UNCHANGED taskVars
       /\ UNCHANGED coreVars
       /\ UNCHANGED updateVars
       /\ UNCHANGED dockerVars
       /\ UNCHANGED moreVars

SnapshotFull(ok, raises) ==
    Snapshot("do_snapshot_full", SNAPSHOT_FULL, {}, installed, Folders,
             ok, raises)

SnapshotPartial(addons, folders, ok, raises) ==
    Snapshot("do_snapshot_partial", SNAPSHOT_PARTIAL, addons,
             AddonList(addons), folders, ok, raises)

\* The steps of do_restore_full at which a raise is followed.
RestoreRaises == {"none", "restore_folders", "restore_repositories",
                  "restore_addons", "core_start"}

\* do_restore_full from call to return on the followed snapshot. ok: the
\* Job conditions hold; failing: the add-ons whose uninstall() raises
\* AddonsError; raisesAt: the step that raises, if any.
RestoreFull(ok, failing, raisesAt) ==
    LET archive == archived
        body == JobConditionsHold(ok) /\ archive.type = SNAPSHOT_FULL
        folders1 == IF raisesAt = "restore_folders" THEN folderData
                    ELSE RestoreFolders(archive)
        looped == raisesAt \notin {"restore_folders", "restore_repositories"}
        installed1 == IF looped THEN UninstallDelta(archive.addons, failing)
                      ELSE installed
        aborted == looped /\ LoopAborts((installed \ archive.addons) \cap failing)
        installed2 == IF raisesAt \in {"none", "core_start"} /\ ~aborted
                      THEN RestoreAddons(installed1, archive) ELSE installed1
    IN /\ archive # NoArchive
       /\ folderData' = IF body THEN folders1 ELSE folderData
       /\ installed' = IF body THEN installed2 ELSE installed
       /\ lastOp' = [NoOp EXCEPT
              !.op = "do_restore_full",
              !.result = IF ~JobConditionsHold(ok) THEN "job_error"
                         ELSE IF ~body \/ raisesAt # "none" \/ aborted
                         THEN Failure("do_restore_full")
                         ELSE Success("do_restore_full"),
              !.raised = IF body THEN raisesAt ELSE "none",
              !.removed = IF body THEN installed \ installed1 ELSE {},
              !.failed = IF body /\ looped
                         THEN (installed \ archive.addons) \cap failing ELSE {}]
       /\ UNCHANGED <<archived, snapshots_obj>>
       /\ UNCHANGED <<coreState, lock, calls, appRunning>>
       /\ UNCHANGED taskVars
       /\ UNCHANGED coreVars
       /\ UNCHANGED updateVars
       /\ UNCHANGED dockerVars
       /\ UNCHANGED moreVars

\* Between the operations: an add-on is installed or removed, a folder is
\* written.
AddonInstalled(a) ==
    /\ a \notin installed
    /\ installed' = installed \cup {a}
    /\ lastOp' = NoOp
    /\ UNCHANGED <<folderData, archived>>
    /\ UNCHANGED snapVars
    /\ UNCHANGED taskVars
    /\ UNCHANGED coreVars
    /\ UNCHANGED updateVars
    /\ UNCHANGED dockerVars
    /\ UNCHANGED moreVars

AddonRemoved(a) ==
    /\ a \in installed
    /\ installed' = installed \ {a}
    /\ lastOp' = NoOp
    /\ UNCHANGED <<folderData, archived>>
    /\ UNCHANGED snapVars
    /\ UNCHANGED taskVars
    /\ UNCHANGED coreVars
    /\ UNCHANGED updateVars
    /\ UNCHANGED dockerVars
    /\ UNCHANGED moreVars

FolderWritten(f, v) ==
    /\ folderData[f] # v
    /\ folderData' = [folderData EXCEPT ![f] = v]
    /\ lastOp' = NoOp
    /\ UNCHANGED <<installed, archived>>
    /\ UNCHANGED snapVars
    /\ UNCHANGED taskVars
    /\ UNCHANGED coreVars
    /\ UNCHANGED updateVars
    /\ UNCHANGED dockerVars
    /\ UNCHANGED moreVars

NextArchives ==
    \/ \E ok \in BOOLEAN, raises \in BOOLEAN : SnapshotFull(ok, raises)
    \/ \E addons \in SUBSET AddonSlugs, folders \in SUBSET Folders,
          ok \in BOOLEAN, raises \in BOOLEAN :
            SnapshotPartial(addons, folders, ok, raises)
    \/ \E ok \in BOOLEAN, failing \in SUBSET Addons,
          raisesAt \in RestoreRaises : RestoreFull(ok, failing, raisesAt)
    \/ \E a \in Addons : AddonInstalled(a)
    \/ \E a \in Addons : AddonRemoved(a)
    \/ \E f \in Folders, v \in Contents : FolderWritten(f, v)

InitData ==
    /\ installed = Addons
    /\ folderData = [f \in Folders |-> "old"]
    /\ archived = NoArchive
    /\ lastOp = NoOp

InitSnapshots ==
    /\ coreState = "RUNNING"
    /\ lock = FALSE
    /\ snapshots_obj = StoredSnapshots
    /\ calls = [c \in Calls |-> IdleCall]
    /\ appRunning = TRUE

InitTasks ==
    /\ cache = [k \in CacheKeys |-> 0]
    /\ last = [k \in CacheKeys |-> "none"]
    /\ tick = [k \in CacheKeys |-> NoTick]

InitCore ==
    /\ coreLock = FALSE
    /\ invs = [i \in Invocations |-> IdleInvocation]

\* ============================== OpenPeerPowerCore._block_till_run
\* The wait for the primary application after a start, poll by poll. Time
\* is counted in poll intervals ("await asyncio.sleep(5)").

\* The versions the wait is called with: the landing page, two releases
\* below and two at or above the threshold, and a version that does not
\* compare (AwesomeVersionException).
Release(parts) == [kind |-> "release", parts |-> parts]
LANDINGPAGE == [kind |-> "landingpage", parts |-> <<>>]
BootVersions ==
    {LANDINGPAGE, [kind |-> "dev", parts |-> <<>>],
     Release(<<0, 111, 9>>), Release(<<0, 112, 0>>), Release(<<0, 99, 3>>),
     Release(<<2021, 1, 0>>)}
EarlyUI == <<0, 112, 0>>

\* version >= AwesomeVersion("0.112.0"): the parts are compared from the
\* left
RECURSIVE AtLeast(_, _)
AtLeast(a, b) ==
    IF a = <<>> \/ b = <<>> THEN Len(a) >= Len(b)
    ELSE IF Head(a) # Head(b) THEN Head(a) > Head(b)
    ELSE AtLeast(Tail(a), Tail(b))

\* "timeout = True; with suppress(AwesomeVersionException): if version >=
\* AwesomeVersion("0.112.0"): timeout = False"
Timeout(v) == ~(v.kind = "release" /\ AtLeast(v.parts, EarlyUI))

\* "timeout and time.monotonic() - start_time > self.sys_openpeerpower
\* .wait_boot"; since: the polls since start_time
TimedOutNever(timeout, since) == FALSE
TimedOut(timeout, since) == timeout /\ since > WaitBoot

\* pc: "idle", "waiting", "returned", "crashed"; polls: the polls of this
\* wait; since: the polls since start_time; reason: why the wait ended
NoBoot == [pc |-> "idle", timeout |-> TRUE, polls |-> 0, since |-> 0,
           migration_progress |-> FALSE, pip_progress |-> FALSE,
           reason |-> "none"]

\* _block_till_run(version) is called: up to the first sleep
BlockTillRun(v) ==
    /\ boot.pc # "waiting"
    /\ boot' = IF v = LANDINGPAGE
               THEN [NoBoot EXCEPT !.pc = "returned", !.reason = "landingpage"]
               ELSE [NoBoot EXCEPT !.pc = "waiting", !.timeout = Timeout(v)]
    /\ UNCHANGED lifeVars
    /\ UNCHANGED maintVars
    /\ UNCHANGED snapVars
    /\ UNCHANGED taskVars
    /\ UNCHANGED coreVars
    /\ UNCHANGED dataVars
    /\ UNCHANGED updateVars
    /\ UNCHANGED dockerVars
    /\ UNCHANGED schedVars
    /\ UNCHANGED recoverVars
    /\ UNCHANGED raceVars
    /\ UNCHANGED catalogVars
    /\ UNCHANGED proxyVars

\* One turn of "while True": the sleep and the checks 1 to 5. running:
\* instance.is_running(); api: check_api_state(); migration_file,
\* pip_file: the marker files exist.
Poll(running, api, migration_file, pip_file) ==
    LET b == [boot EXCEPT !.polls = @ + 1, !.since = @ + 1]
        migrated == [b EXCEPT !.migration_progress = FALSE,
                              !.since = IF b.migration_progress THEN 0 ELSE @]
        installed_pip == [migrated EXCEPT !.pip_progress = FALSE,
                              !.since = IF migrated.pip_progress THEN 0 ELSE @]
    IN /\ boot.pc = "waiting"
       /\ boot.polls < MaxPolls
       /\ boot' =
            IF ~running THEN [b EXCEPT !.pc = "crashed", !.reason = "exited"]
            ELSE IF api THEN [b EXCEPT !.pc = "returned", !.reason = "api"]
            ELSE IF migration_file THEN [b EXCEPT !.migration_progress = TRUE]
            ELSE IF pip_file THEN [migrated EXCEPT !.pip_progress = TRUE]
            ELSE IF TimedOut(installed_pip.timeout, installed_pip.since)
            THEN [installed_pip EXCEPT !.pc = "crashed", !.reason = "timeout"]
            ELSE installed_pip
       /\ errorState' = IF boot'.pc = "crashed" THEN TRUE
                        ELSE IF boot'.pc = "returned" THEN FALSE
                        ELSE errorState
       /\ UNCHANGED <<version, lastUpdate>>
       /\ UNCHANGED lifeVars
       /\ UNCHANGED maintVars
       /\ UNCHANGED snapVars
       /\ UNCHANGED taskVars
       /\ UNCHANGED coreVars
       /\ UNCHANGED dataVars
       /\ UNCHANGED dockerVars
       /\ UNCHANGED schedVars
       /\ UNCHANGED recoverVars
       /\ UNCHANGED raceVars
       /\ UNCHANGED catalogVars
       /\ UNCHANGED proxyVars

NextBoot ==
    \/ \E v \in BootVersions : BlockTillRun(v)
    \/ \E running \in BOOLEAN, api \in BOOLEAN, migration_file \in BOOLEAN,
          pip_file \in BOOLEAN : Poll(running, api, migration_file, pip_file)

InitBoot == boot = NoBoot

\* ================= Tasks: add-on refresh, observer application probe
\* The add-ons and the observer plugin as the tasks find them. Between the scheduled tasks
\* an add-on is started or stopped, its watchdog flag is switched, an
\* operation on it begins or ends, its container comes up or goes down.

AddonStates == {"started", "stopped", "unknown"}
AddonInfo == [state : AddonStates, watchdog : BOOLEAN,
              in_progress : BOOLEAN, running : BOOLEAN]
StartedAddon == [state |-> "started", watchdog |-> TRUE,
                 in_progress |-> FALSE, running |-> TRUE]

\* The conditions of _refresh_addon under which "addon.state =
\* AddonState.STOPPED" is reached for an add-on.
RefreshStopsWatched(o) ==
    o.state = "started" /\ ~(o.in_progress \/ o.running)
RefreshStops(o) ==
    /\ ~(o.watchdog \/ o.state # "started")
    /\ ~(o.in_progress \/ o.running)

\* Tasks._refresh_addon: one run over the installed add-ons
refresh_addon ==
    /\ addonInfo' = [a \in Addons |->
                        IF RefreshStops(addonInfo[a])
                        THEN [addonInfo[a] EXCEPT !.state = "stopped"]
                        ELSE addonInfo[a]]
    /\ lastTask' = "refresh_addon"
    /\ UNCHANGED <<observer, observerLast, observerTick>>
    /\ UNCHANGED lifeVars
    /\ UNCHANGED bootVars
    /\ UNCHANGED snapVars
    /\ UNCHANGED taskVars
    /\ UNCHANGED coreVars
    /\ UNCHANGED dataVars
    /\ UNCHANGED updateVars
    /\ UNCHANGED dockerVars
    /\ UNCHANGED schedVars
    /\ UNCHANGED recoverVars
    /\ UNCHANGED raceVars
    /\ UNCHANGED catalogVars
    /\ UNCHANGED proxyVars

\* Between the scheduled tasks: add-on a becomes o.
AddonChanges(a, o) ==
    /\ addonInfo[a] # o
    /\ addonInfo' = [addonInfo EXCEPT ![a] = o]
    /\ lastTask' = "none"
    /\ UNCHANGED <<observer, observerLast, observerTick>>
    /\ UNCHANGED lifeVars
    /\ UNCHANGED bootVars
    /\ UNCHANGED snapVars
    /\ UNCHANGED taskVars
    /\ UNCHANGED coreVars
    /\ UNCHANGED dataVars
    /\ UNCHANGED updateVars
    /\ UNCHANGED dockerVars
    /\ UNCHANGED schedVars
    /\ UNCHANGED recoverVars
    /\ UNCHANGED raceVars
    /\ UNCHANGED catalogVars
    /\ UNCHANGED proxyVars

\* Observer.check_system_runtime: True on status 200 of /ping; another
\* status, a ClientError and a timeout give False.
PingAnswers == {"200", "500", "client_error", "timeout"}
check_system_runtime(ping) == ping = "200"

\* The observer plugin: whether an operation on it is in progress, whether
\* its container runs, what its application answers on /ping. Only a
\* running container answers with status 200.
ObserverInfo == {o \in [in_progress : BOOLEAN, running : BOOLEAN,
                        ping : PingAnswers] : o.ping = "200" => o.running}

\* Observer.rebuild as the probe sees it: the DockerError of
\* instance.stop() is suppressed; start() turns the DockerError of
\* instance.run() into ObserverError, which the probe catches.
rebuild(stop_error, run_error) == IF run_error THEN "caught" ELSE "ok"

\* The container after Observer.rebuild: it runs when instance.run()
\* succeeded; when run() failed it runs only if stop() had failed too.
Rebuilt(o, stop_error, run_error) ==
    [o EXCEPT !.running = ~run_error \/ stop_error]

\* Whether the probe goes on to rebuild() after a failed runtime check;
\* before: the result of the check before.
EscalatesAtSecondMiss(before) == before = "fail"
Escalates(before) == TRUE

NoObserverTick == [check |-> "none", rebuild |-> "none"]

\* Between the scheduled tasks: an operation on the observer plugin begins
\* or ends, its application answers differently.
ObserverChanges(o) ==
    /\ observer # o
    /\ observer' = o
    /\ lastTask' = "none"
    /\ UNCHANGED <<addonInfo, observerLast, observerTick>>
    /\ UNCHANGED lifeVars
    /\ UNCHANGED bootVars
    /\ UNCHANGED snapVars
    /\ UNCHANGED taskVars
    /\ UNCHANGED coreVars
    /\ UNCHANGED dataVars
    /\ UNCHANGED updateVars
    /\ UNCHANGED dockerVars
    /\ UNCHANGED schedVars
    /\ UNCHANGED recoverVars
    /\ UNCHANGED raceVars
    /\ UNCHANGED catalogVars
    /\ UNCHANGED proxyVars

\* Tasks._watchdog_observer_application: one tick
watchdog_observer_application(stop_error, run_error) ==
    LET in_progress == observer.in_progress
        ok == check_system_runtime(observer.ping)
    IN /\ observerTick' =
            IF in_progress THEN NoObserverTick
            ELSE IF ok THEN [NoObserverTick EXCEPT !.check = "ok"]
            ELSE [check |-> "fail",
                  rebuild |-> IF Escalates(observerLast)
                              THEN rebuild(stop_error, run_error) ELSE "none"]
       /\ observerLast' = IF in_progress THEN observerLast
                          ELSE IF ok THEN "ok" ELSE "fail"
       /\ observer' = IF ~in_progress /\ ~ok /\ Escalates(observerLast)
                      THEN Rebuilt(observer, stop_error, run_error)
                      ELSE observer
       /\ lastTask' = "watchdog_observer_application"
       /\ UNCHANGED addonInfo
       /\ UNCHANGED lifeVars
       /\ UNCHANGED bootVars
       /\ UNCHANGED snapVars
       /\ UNCHANGED taskVars
       /\ UNCHANGED coreVars
       /\ UNCHANGED dataVars
       /\ UNCHANGED updateVars
       /\ UNCHANGED dockerVars
       /\ UNCHANGED schedVars
       /\ UNCHANGED recoverVars
       /\ UNCHANGED raceVars
       /\ UNCHANGED catalogVars
       /\ UNCHANGED proxyVars

NextRefresh ==
    \/ refresh_addon
    \/ \E a \in Addons, o \in AddonInfo : AddonChanges(a, o)

NextObserver ==
    \/ \E o \in ObserverInfo : ObserverChanges(o)
    \/ \E stop_error \in BOOLEAN, run_error \in BOOLEAN :
            watchdog_observer_application(stop_error, run_error)

InitMaintenance ==
    /\ addonInfo = [a \in Addons |-> StartedAddon]
    /\ observer = [in_progress |-> FALSE, running |-> TRUE, ping |-> "200"]
    /\ observerLast = "none"
    /\ observerTick = NoObserverTick
    /\ lastTask = "none"

\* ============================================================ Scheduler
\* Scheduler.register_task(coro_callback, interval) as Tasks.load uses it:
\* one repeating timer per registered task. The timer of a task is armed
\* at registration and again when an invocation of the task completes; it
\* fires at its deadline and the invocation runs as a task of its own.
\* Two tasks are followed: A with interval 1 and B with interval 2.

SchedTasks == {"A", "B"}
Interval == [t \in SchedTasks |-> IF t = "A" THEN 1 ELSE 2]

\* A registered task: armed (its timer waits for the deadline due) or
\* running; fired counts its firings, raised holds the firings that ended
\* with an exception, late tells that an invocation outlived a time unit.
RegisteredTask(t) ==
    [state |-> "armed", due |-> Interval[t], fired |-> 0, raised |-> {},
     late |-> FALSE]

\* Whether the timer of a task is armed again when an invocation completed,
\* raises: the invocation ended with an exception.
RearmedUnlessRaised(raises) == ~raises
Rearmed(raises) == TRUE

\* The timer of task t fires: the invocation starts.
Fire(t) ==
    /\ sched[t].state = "armed"
    /\ sched[t].due <= clock
    /\ sched' = [sched EXCEPT ![t].state = "running",
                              ![t].fired = @ + 1]
    /\ UNCHANGED clock
    /\ UNCHANGED <<lifeVars, bootVars, maintVars>>
    /\ UNCHANGED recoverVars
    /\ UNCHANGED raceVars
    /\ UNCHANGED catalogVars
    /\ UNCHANGED proxyVars
    /\ UNCHANGED snapVars
    /\ UNCHANGED taskVars
    /\ UNCHANGED coreVars
    /\ UNCHANGED dataVars
    /\ UNCHANGED updateVars
    /\ UNCHANGED dockerVars

\* The invocation of task t completes, with an exception or without: the
\* exception is logged and the timer is armed for one interval from now.
Completes(t, raises) ==
    /\ sched[t].state = "running"
    /\ sched' = [sched EXCEPT
                    ![t].state = IF Rearmed(raises) THEN "armed" ELSE "dropped",
                    ![t].due = clock + Interval[t],
                    ![t].raised = IF raises THEN @ \cup {sched[t].fired} ELSE @]
    /\ UNCHANGED clock
    /\ UNCHANGED <<lifeVars, bootVars, maintVars>>
    /\ UNCHANGED recoverVars
    /\ UNCHANGED raceVars
    /\ UNCHANGED catalogVars
    /\ UNCHANGED proxyVars
    /\ UNCHANGED snapVars
    /\ UNCHANGED taskVars
    /\ UNCHANGED coreVars
    /\ UNCHANGED dataVars
    /\ UNCHANGED updateVars
    /\ UNCHANGED dockerVars

\* One time unit passes. A timer that is due fires before time passes; an
\* invocation that still runs goes on into the next unit.
Elapse ==
    /\ clock < MaxClock
    /\ \A t \in SchedTasks : ~(sched[t].state = "armed" /\ sched[t].due <= clock)
    /\ clock' = clock + 1
    /\ sched' = [t \in SchedTasks |->
                    IF sched[t].state = "running"
                    THEN [sched[t] EXCEPT !.late = TRUE] ELSE sched[t]]
    /\ UNCHANGED <<lifeVars, bootVars, maintVars>>
    /\ UNCHANGED recoverVars
    /\ UNCHANGED raceVars
    /\ UNCHANGED catalogVars
    /\ UNCHANGED proxyVars
    /\ UNCHANGED snapVars
    /\ UNCHANGED taskVars
    /\ UNCHANGED coreVars
    /\ UNCHANGED dataVars
    /\ UNCHANGED updateVars
    /\ UNCHANGED dockerVars

NextScheduler ==
    \/ \E t \in SchedTasks : Fire(t)
    \/ \E t \in SchedTasks, raises \in BOOLEAN : Completes(t, raises)
    \/ Elapse

InitScheduler ==
    /\ clock = 0
    /\ sched = [t \in SchedTasks |-> RegisteredTask(t)]

\* ============================== the primary application kept running
\* _watchdog_openpeerpower_docker on the container it watches: what the
\* probe reads is the state of the container and _error_state, and what
\* start() and rebuild() do to them is followed.

\* is_failed(): the container exited with an error, so it does not run.
ContainerStates ==
    {o \in [is_failed : BOOLEAN, watchdog : BOOLEAN, in_progress : BOOLEAN,
            running : BOOLEAN] : o.is_failed => ~o.running}

\* what the probe reads now
SeenNow ==
    [is_failed |-> container.is_failed, watchdog |-> container.watchdog,
     error_state |-> errorState, in_progress |-> container.in_progress,
     running |-> container.running, started |-> TRUE]

\* start(), or rebuild() after the caught error of start(), brought the
\* application up
CameUp(outcome, rebuild_raises) ==
    outcome = "ok" \/ (outcome = "caught" /\ ~rebuild_raises)

\* Between the ticks: the container exits or is brought up by hand, the
\* watchdog flag is switched, an operation begins or ends.
ContainerChanges(o) ==
    /\ container # o
    /\ container' = o
    /\ dockerTick' = Tick("none", <<>>, "return")
    /\ UNCHANGED <<lifeVars, bootVars, maintVars, schedVars>>
    /\ UNCHANGED raceVars
    /\ UNCHANGED catalogVars
    /\ UNCHANGED proxyVars
    /\ UNCHANGED snapVars
    /\ UNCHANGED taskVars
    /\ UNCHANGED coreVars
    /\ UNCHANGED dataVars
    /\ UNCHANGED updateVars

\* One tick of _watchdog_openpeerpower_docker on the container as it is.
\* crash: _block_till_run() gave up in the start() or rebuild() that did
\* not bring the application up, which sets _error_state.
watchdog_openpeerpower_docker_tick(outcome, rebuild_raises, crash) ==
    LET o == SeenNow
    IN /\ dockerTick' = CoreTick(o, outcome, rebuild_raises)
       /\ container' =
             IF CoreNeedsStart(o) /\ CameUp(outcome, rebuild_raises)
             THEN [container EXCEPT !.is_failed = FALSE, !.running = TRUE]
             ELSE container
       /\ errorState' =
             IF ~CoreNeedsStart(o) THEN errorState
             ELSE IF CameUp(outcome, rebuild_raises) THEN FALSE
             ELSE crash
       /\ UNCHANGED <<version, lastUpdate>>
       /\ UNCHANGED <<lifeVars, bootVars, maintVars, schedVars>>
       /\ UNCHANGED raceVars
       /\ UNCHANGED catalogVars
       /\ UNCHANGED proxyVars
       /\ UNCHANGED snapVars
       /\ UNCHANGED taskVars
       /\ UNCHANGED coreVars
       /\ UNCHANGED dataVars

\* One tick of _watchdog_openpeerpower_api on the container as it is;
\* api: the answer of check_api_state(), which a container that does not
\* run cannot give; outcome: what core.restart() does; crash:
\* _block_till_run() gave up in a restart() that failed.
watchdog_openpeerpower_api_tick(api, outcome, crash) ==
    LET st == ApiTick(container.is_failed, container.watchdog, errorState,
                      container.in_progress, api, outcome)
        restart == st.tick[OPP_WATCHDOG_API].restart
    IN /\ api => container.running
       /\ cache' = st.cache
       /\ last' = st.last
       /\ tick' = st.tick
       /\ container' = IF restart = "ok"
                       THEN [container EXCEPT !.is_failed = FALSE, !.running = TRUE]
                       ELSE container
       /\ errorState' = IF restart = "none" THEN errorState
                        ELSE IF restart = "ok" THEN FALSE
                        ELSE crash
       /\ UNCHANGED <<version, lastUpdate>>
       /\ UNCHANGED dockerVars
       /\ UNCHANGED <<lifeVars, bootVars, maintVars, schedVars>>
       /\ UNCHANGED raceVars
       /\ UNCHANGED catalogVars
       /\ UNCHANGED proxyVars
       /\ UNCHANGED snapVars
       /\ UNCHANGED coreVars
       /\ UNCHANGED dataVars

ScheduledTick ==
    \E outcome \in StartOutcomes, rebuild_raises \in BOOLEAN, crash \in BOOLEAN :
        watchdog_openpeerpower_docker_tick(outcome, rebuild_raises, crash)

NextRecovery ==
    \/ \E o \in ContainerStates : ContainerChanges(o)
    \/ ScheduledTick
    \/ \E api \in BOOLEAN, outcome \in RestartOutcomes, crash \in BOOLEAN :
            watchdog_openpeerpower_api_tick(api, outcome, crash)
    \/ \E crashes \in BOOLEAN : block_till_run(crashes)

InitRecovery ==
    container = [is_failed |-> FALSE, watchdog |-> TRUE,
                 in_progress |-> FALSE, running |-> TRUE]

\* ================================= Tasks._refresh_addon, by statement
\* The run of _refresh_addon at one add-on, from one suspension to the
\* next: the guards up to "await addon.is_running()", the read of the
\* container state that the awaited call makes, and the statements after
\* the await. The add-ons change in between as in AddonChanges.

NoRefresh == [pc |-> "idle", addon |-> 0, read |-> "none", wrote |-> FALSE]

\* "if addon.watchdog or addon.state != AddonState.STARTED: continue" and
\* "if addon.in_progress or await ...": the run comes to the await for
\* add-on a, or passes the add-on by.
refresh_visit(a) ==
    /\ refresh.pc = "idle"
    /\ refresh' =
          IF addonInfo[a].watchdog \/ addonInfo[a].state # "started"
             \/ addonInfo[a].in_progress
          THEN [NoRefresh EXCEPT !.addon = a]
          ELSE [NoRefresh EXCEPT !.pc = "await", !.addon = a]
    /\ lastTask' = "refresh_addon"
    /\ UNCHANGED <<addonInfo, observer, observerLast, observerTick>>
    /\ UNCHANGED <<lifeVars, bootVars, schedVars, recoverVars>>
    /\ UNCHANGED catalogVars
    /\ UNCHANGED proxyVars
    /\ UNCHANGED snapVars
    /\ UNCHANGED taskVars
    /\ UNCHANGED coreVars
    /\ UNCHANGED dataVars
    /\ UNCHANGED updateVars
    /\ UNCHANGED dockerVars

\* addon.is_running() reads the state of the container.
is_running_reads ==
    /\ refresh.pc = "await" /\ refresh.read = "none"
    /\ refresh' = [refresh EXCEPT
          !.read = IF addonInfo[refresh.addon].running THEN "running"
                   ELSE "down"]
    /\ lastTask' = "refresh_addon"
    /\ UNCHANGED <<addonInfo, observer, observerLast, observerTick>>
    /\ UNCHANGED <<lifeVars, bootVars, schedVars, recoverVars>>
    /\ UNCHANGED catalogVars
    /\ UNCHANGED proxyVars
    /\ UNCHANGED snapVars
    /\ UNCHANGED taskVars
    /\ UNCHANGED coreVars
    /\ UNCHANGED dataVars
    /\ UNCHANGED updateVars
    /\ UNCHANGED dockerVars

\* The run resumes after the await: "continue" when the container was
\* read as running, else "addon.state = AddonState.STOPPED".
refresh_resumes ==
    /\ refresh.pc = "await" /\ refresh.read # "none"
    /\ refresh' = [NoRefresh EXCEPT !.addon = refresh.addon,
                                    !.wrote = refresh.read = "down"]
    /\ addonInfo' = IF refresh.read = "running" THEN addonInfo
                    ELSE [addonInfo EXCEPT ![refresh.addon].state = "stopped"]
    /\ lastTask' = "refresh_addon"
    /\ UNCHANGED <<observer, observerLast, observerTick>>
    /\ UNCHANGED <<lifeVars, bootVars, schedVars, recoverVars>>
    /\ UNCHANGED catalogVars
    /\ UNCHANGED proxyVars
    /\ UNCHANGED snapVars
    /\ UNCHANGED taskVars
    /\ UNCHANGED coreVars
    /\ UNCHANGED dataVars
    /\ UNCHANGED updateVars
    /\ UNCHANGED dockerVars

NextRace ==
    \/ \E a \in Addons : refresh_visit(a)
    \/ is_running_reads
    \/ refresh_resumes
    \/ \E a \in Addons, o \in AddonInfo : AddonChanges(a, o)

InitRace == refresh = NoRefresh

\* ================== SnapshotManager.reload, get, remove, import_snapshot
\* The catalog next to the archives under path_backup. An archive is
\* stored as "<slug>.tar"; the slugs are those of the stored snapshots and
\* one more that an imported file may carry.

ImportedSlugs == StoredSnapshots \cup {FollowedSlug}

NoReload == [active |-> FALSE, pending |-> {}, before |-> {}]
NoImport == [pc |-> "idle", slug |-> "none", result |-> "none",
             changed |-> {}]
NoGet == [slug |-> "none", found |-> FALSE, expected |-> FALSE]

\* "self.snapshots_obj = {}", one _load_snapshot per "*.tar" file, and
\* "await asyncio.wait(tasks)" when there is any.
reload ==
    /\ ~reloading.active
    /\ LET files == {s \in ImportedSlugs : backup[s] # "none"}
       IN /\ snapshots_obj' = {}
          /\ reloading' = [active |-> files # {}, pending |-> files,
                           before |-> snapshots_obj]
    /\ UNCHANGED <<backup, importing, lastGet>>
    /\ UNCHANGED <<coreState, lock, calls, appRunning>>
    /\ UNCHANGED <<lifeVars, bootVars, maintVars, schedVars, recoverVars>>
    /\ UNCHANGED proxyVars
    /\ UNCHANGED raceVars
    /\ UNCHANGED taskVars
    /\ UNCHANGED coreVars
    /\ UNCHANGED dataVars
    /\ UNCHANGED updateVars
    /\ UNCHANGED dockerVars

\* One _load_snapshot completes: "if await snapshot.load():
\* self.snapshots_obj[snapshot.slug] = snapshot". When the last one has
\* completed, reload returns.
load_snapshot(s, load_ok) ==
    /\ reloading.active /\ s \in reloading.pending
    /\ snapshots_obj' = IF load_ok /\ backup[s] # "none"
                        THEN snapshots_obj \cup {s} ELSE snapshots_obj
    /\ reloading' = [reloading EXCEPT
          !.pending = @ \ {s},
          !.active = reloading.pending \ {s} # {}]
    /\ UNCHANGED <<backup, importing, lastGet>>
    /\ UNCHANGED <<coreState, lock, calls, appRunning>>
    /\ UNCHANGED <<lifeVars, bootVars, maintVars, schedVars, recoverVars>>
    /\ UNCHANGED proxyVars
    /\ UNCHANGED raceVars
    /\ UNCHANGED taskVars
    /\ UNCHANGED coreVars
    /\ UNCHANGED dataVars
    /\ UNCHANGED updateVars
    /\ UNCHANGED dockerVars

\* "return self.snapshots_obj.get(slug)", called by a reader. expected:
\* a reload is in progress, the snapshot was in the catalog before it and
\* its archive exists.
get(slug) ==
    /\ lastGet' = [slug |-> slug, found |-> slug \in snapshots_obj,
                   expected |-> /\ reloading.active
                                /\ slug \in reloading.before
                                /\ backup[slug] # "none"]
    /\ UNCHANGED <<snapshots_obj, backup, reloading, importing>>
    /\ UNCHANGED <<coreState, lock, calls, appRunning>>
    /\ UNCHANGED <<lifeVars, bootVars, maintVars, schedVars, recoverVars>>
    /\ UNCHANGED proxyVars
    /\ UNCHANGED raceVars
    /\ UNCHANGED taskVars
    /\ UNCHANGED coreVars
    /\ UNCHANGED dataVars
    /\ UNCHANGED updateVars
    /\ UNCHANGED dockerVars

\* remove(snapshot): "snapshot.tarfile.unlink()" and
\* "self.snapshots_obj.pop(snapshot.slug, None)"; an OSError of unlink
\* leaves the entry.
Unlinked(s, unlink_ok) == unlink_ok /\ backup[s] # "none"

remove(s, unlink_ok) ==
    /\ s \in snapshots_obj
    /\ backup' = IF Unlinked(s, unlink_ok)
                 THEN [backup EXCEPT ![s] = "none"] ELSE backup
    /\ snapshots_obj' = IF Unlinked(s, unlink_ok)
                        THEN snapshots_obj \ {s} ELSE snapshots_obj
    /\ UNCHANGED <<reloading, importing, lastGet>>
    /\ UNCHANGED <<coreState, lock, calls, appRunning>>
    /\ UNCHANGED <<lifeVars, bootVars, maintVars, schedVars, recoverVars>>
    /\ UNCHANGED proxyVars
    /\ UNCHANGED raceVars
    /\ UNCHANGED taskVars
    /\ UNCHANGED coreVars
    /\ UNCHANGED dataVars
    /\ UNCHANGED updateVars
    /\ UNCHANGED dockerVars

\* import_snapshot(tar_file) up to "await snapshot.load()"; s is the slug
\* the file carries.
import_snapshot(s) ==
    /\ importing.pc = "idle"
    /\ importing' = [NoImport EXCEPT !.pc = "load", !.slug = s]
    /\ UNCHANGED <<snapshots_obj, backup, reloading, lastGet>>
    /\ UNCHANGED <<coreState, lock, calls, appRunning>>
    /\ UNCHANGED <<lifeVars, bootVars, maintVars, schedVars, recoverVars>>
    /\ UNCHANGED proxyVars
    /\ UNCHANGED raceVars
    /\ UNCHANGED taskVars
    /\ UNCHANGED coreVars
    /\ UNCHANGED dataVars
    /\ UNCHANGED updateVars
    /\ UNCHANGED dockerVars

\* From the first load to the second: "return None" when the load
\* failed; remove() of a registered snapshot with the same slug; the
\* rename to "<slug>.tar", whose OSError returns None. changed: the
\* snapshots registered before whose entry or archive this import changed.
import_loaded(load_ok, unlink_ok, rename_ok) ==
    /\ importing.pc = "load"
    /\ LET s == importing.slug
           removed == s \in snapshots_obj /\ Unlinked(s, unlink_ok)
           moved == load_ok /\ rename_ok
       IN /\ snapshots_obj' = IF load_ok /\ removed
                              THEN snapshots_obj \ {s} ELSE snapshots_obj
          /\ backup' = IF moved THEN [backup EXCEPT ![s] = "imported"]
                       ELSE IF load_ok /\ removed
                       THEN [backup EXCEPT ![s] = "none"]
                       ELSE backup
          /\ importing' = [importing EXCEPT
                !.pc = IF moved THEN "load_stored" ELSE "idle",
                !.result = IF moved THEN "none" ELSE "None",
                !.changed = {x \in snapshots_obj :
                               \/ x \notin snapshots_obj'
                               \/ backup'[x] # backup[x]}]
    /\ UNCHANGED <<reloading, lastGet>>
    /\ UNCHANGED <<coreState, lock, calls, appRunning>>
    /\ UNCHANGED <<lifeVars, bootVars, maintVars, schedVars, recoverVars>>
    /\ UNCHANGED proxyVars
    /\ UNCHANGED raceVars
    /\ UNCHANGED taskVars
    /\ UNCHANGED coreVars
    /\ UNCHANGED dataVars
    /\ UNCHANGED updateVars
    /\ UNCHANGED dockerVars

\* From the second load to the return: "return None" when it failed,
\* else "self.snapshots_obj[snapshot.slug] = snapshot".
import_stored(load_ok) ==
    /\ importing.pc = "load_stored"
    /\ snapshots_obj' = IF load_ok /\ backup[importing.slug] # "none"
                        THEN snapshots_obj \cup {importing.slug}
                        ELSE snapshots_obj
    /\ importing' = [importing EXCEPT
          !.pc = "idle",
          !.result = IF load_ok /\ backup[importing.slug] # "none"
                     THEN "snapshot" ELSE "None"]
    /\ UNCHANGED <<backup, reloading, lastGet>>
    /\ UNCHANGED <<coreState, lock, calls, appRunning>>
    /\ UNCHANGED <<lifeVars, bootVars, maintVars, schedVars, recoverVars>>
    /\ UNCHANGED proxyVars
    /\ UNCHANGED raceVars
    /\ UNCHANGED taskVars
    /\ UNCHANGED coreVars
    /\ UNCHANGED dataVars
    /\ UNCHANGED updateVars
    /\ UNCHANGED dockerVars

NextCatalog ==
    \/ reload
    \/ \E s \in ImportedSlugs, load_ok \in BOOLEAN : load_snapshot(s, load_ok)
    \/ \E s \in ImportedSlugs : get(s)
    \/ \E s \in ImportedSlugs, unlink_ok \in BOOLEAN : remove(s, unlink_ok)
    \/ \E s \in ImportedSlugs : import_snapshot(s)
    \/ \E load_ok, unlink_ok, rename_ok \in BOOLEAN :
          import_loaded(load_ok, unlink_ok, rename_ok)
    \/ \E load_ok \in BOOLEAN : import_stored(load_ok)

InitCatalog ==
    /\ backup = [s \in ImportedSlugs |->
                   IF s \in StoredSnapshots THEN "stored" ELSE "none"]
    /\ reloading = NoReload
    /\ importing = NoImport
    /\ lastGet = NoGet

\* ======================================================= APIProxy.websocket
\* The handler of one WebSocket connection of a client, from one await to
\* the next. Several connections are served at a time.

MaxConnections == 2
Connections == 1 .. MaxConnections

\* What the first message of the client can be: a JSON object with the
\* token of an add-on that may access the API, of an add-on that may not,
\* with a token of no add-on or with no token; a JSON value that is not
\* an object; text that is not JSON; a message that is not text.
FirstMessages == {"token_allowed", "token_denied", "token_unknown",
                  "no_token", "not_object", "not_json", "not_text"}

\* How server.receive_json() and response.get() end for the message.
Received(m) ==
    CASE m = "not_json" -> "ValueError"
      [] m = "not_text" -> "TypeError"
      [] m = "not_object" -> "AttributeError"
      [] OTHER -> "ok"

\* "if not addon or not addon.access_openpeerpower_api" is false.
AuthorisedAnyAddon(m) == m \in {"token_allowed", "token_denied"}
Authorised(m) == m = "token_allowed"

NoSocket == [pc |-> "idle", first |-> "none", sent |-> {},
             opened |-> FALSE, to_core |-> FALSE, to_client |-> FALSE,
             ended |-> "none"]

\* websocket() up to "response = await server.receive_json()": the
\* gateway error when the API is not up, else auth_required is sent.
websocket(c, api_state) ==
    /\ ws[c].pc = "idle" /\ ws[c].ended = "none"
    /\ ws' = [ws EXCEPT ![c] =
          IF api_state
          THEN [@ EXCEPT !.pc = "handshake", !.sent = {"auth_required"}]
          ELSE [@ EXCEPT !.ended = "raised"]]
    /\ UNCHANGED <<lifeVars, bootVars, maintVars, schedVars, recoverVars>>
    /\ UNCHANGED <<raceVars, catalogVars>>
    /\ UNCHANGED snapVars
    /\ UNCHANGED taskVars
    /\ UNCHANGED coreVars
    /\ UNCHANGED dataVars
    /\ UNCHANGED updateVars
    /\ UNCHANGED dockerVars

\* The first message m of the client arrives: the handshake up to
\* "client = await self._websocket_client()", or to the return.
first_message(c, m) ==
    /\ ws[c].pc = "handshake"
    /\ ws' = [ws EXCEPT ![c] =
          CASE Received(m) = "ValueError" ->
                 [@ EXCEPT !.pc = "idle", !.first = m, !.ended = "returned"]
            [] Received(m) \in {"TypeError", "AttributeError"} ->
                 [@ EXCEPT !.pc = "idle", !.first = m, !.ended = "raised"]
            [] Received(m) = "ok" /\ ~Authorised(m) ->
                 [@ EXCEPT !.pc = "idle", !.first = m,
                           !.sent = @ \cup {"auth_invalid"},
                           !.ended = "returned"]
            [] OTHER ->
                 [@ EXCEPT !.pc = "connect", !.first = m,
                           !.sent = @ \cup {"auth_ok"}]]
    /\ UNCHANGED <<lifeVars, bootVars, maintVars, schedVars, recoverVars>>
    /\ UNCHANGED <<raceVars, catalogVars>>
    /\ UNCHANGED snapVars
    /\ UNCHANGED taskVars
    /\ UNCHANGED coreVars
    /\ UNCHANGED dataVars
    /\ UNCHANGED updateVars
    /\ UNCHANGED dockerVars

\* _websocket_client(): the connection to the primary application is
\* opened and authenticated; an APIError returns.
websocket_client(c, outcome) ==
    /\ ws[c].pc = "connect"
    /\ ws' = [ws EXCEPT ![c] =
          IF outcome = "ok"
          THEN [@ EXCEPT !.pc = "forward", !.opened = TRUE]
          ELSE [@ EXCEPT !.pc = "idle", !.opened = outcome = "auth_error",
                         !.ended = "returned"]]
    /\ UNCHANGED <<lifeVars, bootVars, maintVars, schedVars, recoverVars>>
    /\ UNCHANGED <<raceVars, catalogVars>>
    /\ UNCHANGED snapVars
    /\ UNCHANGED taskVars
    /\ UNCHANGED coreVars
    /\ UNCHANGED dataVars
    /\ UNCHANGED updateVars
    /\ UNCHANGED dockerVars

\* One turn of the loop: a message of the client goes to the primary
\* application, or one of the primary application to the client.
forward(c, from_client) ==
    /\ ws[c].pc = "forward"
    /\ ws' = [ws EXCEPT ![c] =
          IF from_client THEN [@ EXCEPT !.to_core = TRUE]
          ELSE [@ EXCEPT !.to_client = TRUE]]
    /\ UNCHANGED <<lifeVars, bootVars, maintVars, schedVars, recoverVars>>
    /\ UNCHANGED <<raceVars, catalogVars>>
    /\ UNCHANGED snapVars
    /\ UNCHANGED taskVars
    /\ UNCHANGED coreVars
    /\ UNCHANGED dataVars
    /\ UNCHANGED updateVars
    /\ UNCHANGED dockerVars

\* A side closes or a transfer fails: the loop ends, both connections
\* are closed and the handler returns.
connection_closed(c) ==
    /\ ws[c].pc = "forward"
    /\ ws' = [ws EXCEPT ![c] = [@ EXCEPT !.pc = "idle",
                                         !.ended = "returned"]]
    /\ UNCHANGED <<lifeVars, bootVars, maintVars, schedVars, recoverVars>>
    /\ UNCHANGED <<raceVars, catalogVars>>
    /\ UNCHANGED snapVars
    /\ UNCHANGED taskVars
    /\ UNCHANGED coreVars
    /\ UNCHANGED dataVars
    /\ UNCHANGED updateVars
    /\ UNCHANGED dockerVars

NextProxy ==
    \/ \E c \in Connections, api_state \in BOOLEAN : websocket(c, api_state)
    \/ \E c \in Connections, m \in FirstMessages : first_message(c, m)
    \/ \E c \in Connections, outcome \in {"ok", "connect_error", "auth_error"} :
          websocket_client(c, outcome)
    \/ \E c \in Connections, from_client \in BOOLEAN : forward(c, from_client)
    \/ \E c \in Connections : connection_closed(c)

InitProxy == ws = [c \in Connections |-> NoSocket]

\* ============================================================ lifecycle
\* The Snapshot Manager next to the other writer of sys_core.state, the
\* stop of the core that a supervisor update schedules, and next to the
\* scheduled tasks, which fire while a snapshot operation runs.

\* JobCondition.RUNNING of the Job decorator: the state is RUNNING when
\* the decorated operation is called.
JobRunning == coreState = "RUNNING"

\* Tasks._update_supervisor, one run: "if not need_update: return", the
\* free space check, then Supervisor.update(): the image is installed
\* (docker_error: instance.install raises DockerError and update raises
\* SupervisorUpdateError) and "self.sys_create_task(self.sys_core.stop())".
\* Neither looks at sys_core.state.
update_supervisor(need_update, free_space, docker_error) ==
    /\ stopTask = "none"
    /\ stopTask' = IF need_update /\ free_space /\ ~docker_error
                   THEN "created" ELSE stopTask
    /\ UNCHANGED bootVars
    /\ UNCHANGED maintVars
    /\ UNCHANGED snapVars
    /\ UNCHANGED taskVars
    /\ UNCHANGED coreVars
    /\ UNCHANGED dataVars
    /\ UNCHANGED updateVars
    /\ UNCHANGED dockerVars
    /\ UNCHANGED schedVars
    /\ UNCHANGED recoverVars
    /\ UNCHANGED raceVars
    /\ UNCHANGED catalogVars
    /\ UNCHANGED proxyVars

\* The task of sys_core.stop() runs: the core leaves RUNNING for STOPPING.
core_stop ==
    /\ stopTask = "created"
    /\ stopTask' = "done"
    /\ coreState' = "STOPPING"
    /\ UNCHANGED bootVars
    /\ UNCHANGED maintVars
    /\ UNCHANGED <<lock, snapshots_obj, calls, appRunning>>
    /\ UNCHANGED taskVars
    /\ UNCHANGED coreVars
    /\ UNCHANGED dataVars
    /\ UNCHANGED updateVars
    /\ UNCHANGED dockerVars
    /\ UNCHANGED schedVars
    /\ UNCHANGED recoverVars
    /\ UNCHANGED raceVars
    /\ UNCHANGED catalogVars
    /\ UNCHANGED proxyVars

InitLife == stopTask = "none"

Init ==
    /\ InitSnapshots /\ InitTasks /\ InitCore
    /\ InitData /\ InitUpdate /\ InitDocker
    /\ InitLife /\ InitBoot /\ InitMaintenance /\ InitScheduler
    /\ InitRecovery /\ InitRace /\ InitCatalog /\ InitProxy

\* The four operations with the arguments each takes.
do_snapshot_full(c, ok) ==
    Call(c, "do_snapshot_full", "none", "none", FALSE, {}, {}, ok)

do_snapshot_partial(c, addons, folders, ok) ==
    Call(c, "do_snapshot_partial", "none", "none", FALSE, addons, folders, ok)

do_restore_full(c, snap, password, ok) ==
    Call(c, "do_restore_full", snap, password, FALSE, {}, {}, ok)

do_restore_partial(c, snap, password, openpeerpower, addons, folders, ok) ==
    Call(c, "do_restore_partial", snap, password, openpeerpower, addons,
         folders, ok)

\* A call the Job conditions or the locked() guard reject returns before
\* it looks at what was asked for: one choice of add-ons and folders
\* stands for all of them.
Rejected(ok) == ~JobConditionsHold(ok) \/ Locked
Asked(ok, addons, folders) == Rejected(ok) => (addons = {} /\ folders = {})

\* The observations the step at the head of the body of call c makes:
\* exited by is_running(), api by check_api_state(), none while the call
\* waits for the lock.
Observed(c, raises, exited, api) ==
    /\ calls[c].pc \in {"acquire", "run"}
    /\ calls[c].pc = "acquire" => ~raises
    /\ exited => (calls[c].pc = "run" /\ Head(calls[c].todo) = "is_running")
    /\ api => (calls[c].pc = "run" /\ Head(calls[c].todo) = "check_api_state")

NextSnapshots ==
    \/ \E c \in Calls, ok \in BOOLEAN : do_snapshot_full(c, ok)
    \/ \E c \in Calls, addons \in SUBSET AddonSlugs,
          folders \in SUBSET Folders, ok \in BOOLEAN :
            /\ Asked(ok, addons, folders)
            /\ do_snapshot_partial(c, addons, folders, ok)
    \/ \E c \in Calls, snap \in StoredSnapshots, password \in Passwords,
          ok \in BOOLEAN : do_restore_full(c, snap, password, ok)
    \/ \E c \in Calls, snap \in StoredSnapshots, password \in Passwords,
          openpeerpower \in BOOLEAN, addons \in {{}, Addons},
          folders \in SUBSET Folders, ok \in BOOLEAN :
            /\ Asked(ok, addons, folders)
            /\ Rejected(ok) => ~openpeerpower
            /\ do_restore_partial(c, snap, password, openpeerpower, addons,
                                  folders, ok)
    \/ \E c \in Calls, raises \in BOOLEAN, exited \in BOOLEAN, api \in BOOLEAN :
            /\ Observed(c, raises, exited, api)
            /\ Step(c, raises, exited, api)
    \/ \E c \in Calls, ok \in BOOLEAN : TaskEnds(c, ok)

\* the values of ok with which the Job conditions can hold now
JobOutcomes == {ok \in BOOLEAN : ok => JobRunning}

NextLifecycle ==
    \/ \E c \in Calls, ok \in JobOutcomes : do_snapshot_full(c, ok)
    \/ \E c \in Calls, snap \in StoredSnapshots, password \in Passwords,
          ok \in JobOutcomes : do_restore_full(c, snap, password, ok)
    \/ \E c \in Calls, raises \in BOOLEAN, exited \in BOOLEAN, api \in BOOLEAN :
            Step(c, raises, exited, api)
    \/ \E c \in Calls, ok \in BOOLEAN : TaskEnds(c, ok)
    \/ \E need_update \in BOOLEAN, free_space \in BOOLEAN,
          docker_error \in BOOLEAN :
            update_supervisor(need_update, free_space, docker_error)
    \/ core_stop
    \/ \E o \in SeenOfCore, outcome \in StartOutcomes, rebuild_raises \in BOOLEAN :
            watchdog_openpeerpower_docker(o, outcome, rebuild_raises)

SpecSnapshots == Init /\ [][NextSnapshots]_vars

SpecTasks == Init /\ [][NextTasks]_vars

SpecCore == Init /\ [][NextCore]_vars

SpecArchives == Init /\ [][NextArchives]_vars

SpecUpdate == Init /\ [][NextUpdate]_vars

SpecDocker == Init /\ [][NextDocker]_vars

SpecLifecycle == Init /\ [][NextLifecycle]_vars

SpecBoot == Init /\ [][NextBoot]_vars

SpecRefresh == Init /\ [][NextRefresh]_vars

SpecObserver == Init /\ [][NextObserver]_vars

SpecScheduler == Init /\ [][NextScheduler]_vars

SpecRace == Init /\ [][NextRace]_vars

SpecCatalog == Init /\ [][NextCatalog]_vars

SpecProxy == Init /\ [][NextProxy]_vars

\* The scheduler fires the probe again and again.
SpecRecovery == Init /\ [][NextRecovery]_vars /\ WF_vars(ScheduledTick)

\* ============================================================== claims

Running(c) == calls[c].pc = "run"
\* the step is a call of c that is made now
Made(c) == calls[c].pc = "idle" /\ calls'[c].pc # "idle"
\* the step is the return of a call that had passed its guards
Returns(c) == calls[c].pc = "run" /\ calls'[c].pc = "done"
Failures == {"None", "False", "job_error"}

\* C1: at most one call of do_snapshot_full, do_snapshot_partial,
\* do_restore_full, do_restore_partial is between acquiring and releasing
\* the snapshot lock, whatever snapshot each call targets.
OneSnapshotOperation ==
    /\ Cardinality({c \in Calls : Running(c)}) <= 1
    /\ (\E c \in Calls : Running(c)) => lock

\* two calls were made, on different snapshots, and one of them holds the
\* lock while the other was turned away
OneSnapshotOperationWitness ==
    \E c, d \in Calls :
        /\ Running(c) /\ calls[c].snap = "part"
        /\ calls[d].pc = "done" /\ calls[d].reason = "locked"

SecondCallRejected ==
    [][\A c \in Calls :
        /\ (Made(c) /\ lock) =>
              /\ calls'[c].pc = "done"
              /\ calls'[c].result \in Failures
              /\ calls'[c].trace = <<>>
              /\ coreState = "FREEZE"
              /\ UNCHANGED <<coreState, lock, snapshots_obj, appRunning>>
              /\ \A d \in Calls \ {c} : calls'[d] = calls[d]
        /\ calls'[c].result = "snapshot" => NewSlug(c) \in snapshots_obj']_vars

\* the second call was turned away and the first completed and registered
\* its snapshot
SecondCallRejectedWitness ==
    \E c, d \in Calls :
        /\ calls[d].pc = "done" /\ calls[d].reason = "locked"
        /\ calls[d].result = "None"
        /\ calls[c].pc = "done" /\ calls[c].result = "snapshot"
        /\ NewSlug(c) \in snapshots_obj /\ NewSlug(d) \notin snapshots_obj

\* C4: do_restore_full and do_restore_partial on a protected snapshot with
\* a wrong password return failure before any step runs: the call never
\* gets to its try block, the lock and CoreState are not touched, no
\* component is stopped, no task is created.
WrongPassword(r) ==
    /\ r.op \in RestoreOps
    /\ Protected(r.snap)
    /\ r.password # "good"

WrongPasswordRejected ==
    [][\A c \in Calls :
        /\ calls'[c].pc \in {"acquire", "run"} => ~WrongPassword(calls'[c])
        /\ (Made(c) /\ calls'[c].reason = "password") =>
              /\ calls'[c].pc = "done"
              /\ calls'[c].result = "False"
              /\ calls'[c].trace = <<>>
              /\ calls'[c].task = "none"
              /\ UNCHANGED <<coreState, lock, snapshots_obj, appRunning>>]_vars

\* a restore was turned away for its password while nothing was running
WrongPasswordRejectedWitness ==
    \E c \in Calls :
        /\ calls[c].pc = "done" /\ calls[c].reason = "password"
        /\ ~lock /\ coreState = "RUNNING" /\ appRunning

\* C10: when a step of a snapshot or restore raises, the call returns a
\* failure value, the snapshot lock is released, and the lock is held only
\* while a call is running, so that a later call is not turned away as
\* already running.
ErrorReleasesLock ==
    [][/\ \A c \in Calls :
            (Returns(c) /\ calls'[c].reason = "error") =>
                /\ calls'[c].result \in {"None", "False"}
                /\ ~lock'
       /\ lock' => \E c \in Calls : calls'[c].pc = "run"
       /\ \A c \in Calls :
            (Made(c) /\ calls'[c].reason = "locked") =>
                \E d \in Calls \ {c} : Running(d)]_vars

\* a call runs after an earlier call returned on a raise
ErrorReleasesLockWitness ==
    \E c, d \in Calls :
        /\ calls[c].pc = "done" /\ calls[c].reason = "error"
        /\ Running(d)

\* C11: do_restore_full and do_restore_partial never return while the
\* update task they created is still running, on every exit path, also when
\* a step after the creation of the task raises; a call turned away by a
\* guard never created the task.
NoReturnWhileTaskRuns ==
    \A c \in Calls :
        calls[c].pc = "done" =>
            /\ calls[c].task # "running"
            /\ calls[c].reason \in {"locked", "type", "password"} =>
                   calls[c].task = "none"

Before(t, x, y) ==
    \E i, j \in 1..Len(t) : i < j /\ t[i] = x /\ t[j] = y

\* C12: a do_restore_full that reports success has verified the API
\* readiness after it started the primary application.
RestoreFullVerifiesApi ==
    [][\A c \in Calls :
        (/\ Returns(c)
         /\ calls[c].op = "do_restore_full"
         /\ calls'[c].result = "True") =>
            Before(calls[c].trace, "core_start", "check_api_state")]_vars

\* C13: when a capture step of do_snapshot_full or do_snapshot_partial
\* raises, the call returns no snapshot and the catalog gets no entry for
\* the new slug; the entry is added only by the return that follows the
\* completion of every capture step and the closing of the archive.
CaptureErrorNotRegistered ==
    [][\A c \in Calls :
        /\ (Returns(c) /\ calls[c].op \in SnapshotOps
             /\ calls'[c].reason = "error") =>
                /\ calls'[c].result = "None"
                /\ NewSlug(c) \notin snapshots_obj'
        /\ (NewSlug(c) \notin snapshots_obj /\ NewSlug(c) \in snapshots_obj') =>
                /\ Returns(c) /\ calls[c].op \in SnapshotOps
                /\ calls[c].todo = <<"aexit">>
                /\ calls'[c].result = "snapshot"]_vars

\* a snapshot call returned None after a capture step raised, one catalog
\* entry short
CaptureErrorNotRegisteredWitness ==
    \E c \in Calls :
        /\ calls[c].pc = "done" /\ calls[c].reason = "error"
        /\ calls[c].result = "None"
        /\ NewSlug(c) \notin snapshots_obj
        /\ snapshots_obj = StoredSnapshots

\* the step is a snapshot operation whose Job conditions held
\* and none of whose capture steps raised
Captures(op) ==
    /\ archived = NoArchive
    /\ lastOp'.op = op
    /\ lastOp'.result \notin Failures

\* C14: do_snapshot_partial with add-on slugs that are unknown or not
\* installed succeeds: the snapshot is registered in the catalog and holds
\* exactly the requested add-ons that are installed, possibly none.
UnknownAddonsSkipped ==
    [][/\ (/\ archived = NoArchive
           /\ lastOp'.op = "do_snapshot_partial"
           /\ lastOp'.result # "snapshot") =>
              /\ lastOp'.result \in Failures
              /\ archived' = NoArchive
      /\ Captures("do_snapshot_partial") =>
            /\ lastOp'.result = "snapshot"
            /\ FollowedSlug \in snapshots_obj'
            /\ archived'.type = SNAPSHOT_PARTIAL
            /\ archived'.addons = lastOp'.requested \cap installed
            /\ UnknownAddon \notin archived'.addons]_vars

\* a partial snapshot asked for an unknown add-on only and was registered
\* with no add-on in it
UnknownAddonsSkippedWitness ==
    /\ lastOp.op = "do_snapshot_partial"
    /\ lastOp.requested = {UnknownAddon}
    /\ lastOp.result = "snapshot"
    /\ FollowedSlug \in snapshots_obj
    /\ archived.type = SNAPSHOT_PARTIAL /\ archived.addons = {}

\* the step is a do_restore_full of the followed snapshot that reports
\* success
RestoredFull ==
    /\ lastOp'.op = "do_restore_full"
    /\ lastOp'.result = "True"

\* a full snapshot holds the installed add-ons and the folder contents of
\* the moment it was taken, and keeps them
CapturedFull ==
    /\ Captures("do_snapshot_full") =>
          /\ archived'.type = SNAPSHOT_FULL
          /\ archived'.addons = installed
          /\ archived'.folders = folderData
    /\ archived # NoArchive => archived' = archived

\* the system is what the followed snapshot holds
Reproduced ==
    /\ installed' = archived.addons
    /\ folderData' = archived.folders

UpdateFailed ==
    /\ lastUpdate.attempts # <<>>
    /\ lastUpdate.attempts[1].outcome # "ok"

\* the latest update() went on to reinstall the version installed before
RolledBack ==
    /\ Len(lastUpdate.attempts) = 2
    /\ lastUpdate.attempts[2].version = lastUpdate.previous

\* C17: when update() fails and the application was not in error state
\* before the call, update() attempts to reinstall the version installed
\* before the call, before it reports to its caller.
RollbackOnFailure ==
    (UpdateFailed /\ lastUpdate.healthy) => RolledBack

\* C17, amended: update() attempts the rollback exactly when the update
\* failed, the application was not in error state before the call and the
\* failed update left it in error state, which is the case when the
\* updated application did not come up; a failure of the image update or
\* of the container start raises the update error without a rollback.
RollbackOnCrash ==
    /\ (UpdateFailed /\ lastUpdate.healthy
         /\ lastUpdate.attempts[1].outcome = "crash") => RolledBack
    /\ (UpdateFailed /\ lastUpdate.attempts[1].outcome # "crash") =>
          /\ Len(lastUpdate.attempts) = 1
          /\ lastUpdate.result = "OpenPeerPowerUpdateError"
    /\ (UpdateFailed /\ ~lastUpdate.healthy) => Len(lastUpdate.attempts) = 1
    /\ ~UpdateFailed => Len(lastUpdate.attempts) <= 1

\* the updated application crashed at its start and the version installed
\* before was reinstalled
RollbackOnCrashWitness ==
    /\ UpdateFailed /\ lastUpdate.healthy /\ RolledBack
    /\ lastUpdate.target = "v2" /\ version = "v1"
    /\ lastUpdate.attempts[2].outcome = "ok"

\* C18: whenever the update to the requested version fails, update()
\* raises an error to its caller, after the rollback when one is made and
\* whether the rollback succeeds or fails.
FailedUpdateRaises ==
    UpdateFailed =>
        lastUpdate.result \in {"OpenPeerPowerUpdateError", "OpenPeerPowerError",
                               "OpenPeerPowerCrashError"}

\* the components the latest tick of a container probe visited
Visited == {c \in DOMAIN dockerTick.seen : dockerTick.seen[c].visited}
Issued(c, action) ==
    \E i \in 1..Len(dockerTick.seen[c].actions) :
        dockerTick.seen[c].actions[i] = action

\* C19: a container probe issues start() on a component only if in that
\* tick it saw the component not running and not in progress and, for the
\* primary application and the add-ons, with its watchdog flag enabled.
StartOnlyWhenDown ==
    \A c \in Visited :
        Issued(c, "start") =>
            /\ ~dockerTick.seen[c].running
            /\ ~dockerTick.seen[c].in_progress
            /\ dockerTick.probe \notin Plugins => dockerTick.seen[c].watchdog

\* the add-on probe started one add-on and left alone one whose watchdog
\* is off
StartOnlyWhenDownWitness ==
    /\ dockerTick.probe = "addons"
    /\ \E a, b \in Visited :
          /\ Issued(a, "start")
          /\ ~dockerTick.seen[b].watchdog /\ ~dockerTick.seen[b].running
          /\ dockerTick.seen[b].actions = <<>>

FailedStart(c) == dockerTick.seen[c].start \in {"caught", "raised"}
LastAction(c) ==
    dockerTick.seen[c].actions[Len(dockerTick.seen[c].actions)]

WrongTypeRejected ==
    [][\A c \in Calls :
        /\ (calls'[c].pc \in {"acquire", "run"}
             /\ calls'[c].op = "do_restore_full") =>
                SysType(calls'[c].snap) = SNAPSHOT_FULL
        /\ (Made(c) /\ calls'[c].reason = "type") =>
              /\ calls'[c].pc = "done"
              /\ calls'[c].result = "False"
              /\ calls'[c].trace = <<>>
              /\ UNCHANGED <<coreState, lock, snapshots_obj, appRunning>>]_vars

\* a full restore of the partial snapshot was turned away while nothing
\* was running
WrongTypeRejectedWitness ==
    \E c \in Calls :
        /\ calls[c].pc = "done" /\ calls[c].reason = "type"
        /\ calls[c].result = "False"
        /\ ~lock /\ coreState = "RUNNING" /\ appRunning

\* C5: for the API probe and for the add-on application probe: when the
\* retry counter of a component is 0 and its check fails, the tick issues
\* no restart on it and its counter becomes 1.
FirstMissOnlyCounts ==
    [][\A k \in CacheKeys :
        (cache[k] = 0 /\ tick'[k].check = "fail") =>
            (tick'[k].restart = "none" /\ cache'[k] = 1)]_vars

\* the API probe has recorded a first miss and an add-on's first miss was
\* recorded by the latest tick
FirstMissOnlyCountsWitness ==
    /\ cache[OPP_WATCHDOG_API] = 1 /\ last[OPP_WATCHDOG_API] = "fail"
    /\ \E a \in Addons :
          tick[a] = [NoTick EXCEPT !.check = "fail"] /\ cache[a] = 1

\* C6: a successful application check resets the retry counter, so a failed
\* check that follows a successful one (failed, successful, failed) never
\* triggers restart().
SuccessResetsCounter ==
    [][\A k \in CacheKeys :
        (last[k] = "ok" /\ tick'[k].check = "fail") =>
            tick'[k].restart = "none"]_vars

\* C7: primary application: when its API check fails and the check before
\* failed too and was only counted, restart() is invoked at this second
\* failure, and the counter is 0 afterwards whether restart() returns or
\* raises.
ApiSecondMissRestarts ==
    [][(/\ cache[OPP_WATCHDOG_API] = 1
        /\ last[OPP_WATCHDOG_API] = "fail"
        /\ tick'[OPP_WATCHDOG_API].check = "fail") =>
            /\ tick'[OPP_WATCHDOG_API].restart \in RestartOutcomes
            /\ cache'[OPP_WATCHDOG_API] = 0]_vars

\* the restart() invoked at the second failure raised
ApiSecondMissRestartsWitness ==
    /\ tick[OPP_WATCHDOG_API] = [NoTick EXCEPT !.check = "fail", !.restart = "raised"]
    /\ cache[OPP_WATCHDOG_API] = 0

\* C8: add-on: when its application check fails and its check before
\* failed too and was only counted, restart() is invoked on it by this
\* tick, and its counter is 0 afterwards whether restart() returns or
\* raises.
AddonSecondMissRestarts ==
    [][\A a \in Addons :
        (cache[a] = 1 /\ last[a] = "fail" /\ tick'[a].check = "fail") =>
            /\ tick'[a].restart \in RestartOutcomes
            /\ cache'[a] = 0]_vars

\* the restart() invoked on an add-on at its second failure raised an
\* AddonsError
AddonSecondMissRestartsWitness ==
    \E a \in Addons :
        /\ tick[a] = [NoTick EXCEPT !.check = "fail", !.restart = "caught"]
        /\ cache[a] = 0

\* C9: at most one of install_landingpage, install, update, start, stop,
\* restart, rebuild executes its body at any instant; an operation invoked
\* while another executes fails fast and is never queued.
InBody(i) == invs[i].pc = "body"

OneCoreOperation ==
    [][/\ Cardinality({i \in Invocations : InBody(i)}) <= 1
       /\ Cardinality({i \in Invocations : invs'[i].pc = "body"}) <= 1
       /\ \A i \in Invocations :
            (/\ invs[i].pc = "idle" /\ invs'[i].pc # "idle"
             /\ \E j \in Invocations \ {i} : InBody(j)) =>
                /\ invs'[i].pc = "done"
                /\ invs'[i].result = "in_progress"
                /\ \A j \in Invocations \ {i} : invs'[j] = invs[j]]_vars

\* start() was invoked twice concurrently: one body executed, the other
\* invocation failed fast
OneCoreOperationWitness ==
    \E i, j \in Invocations :
        /\ invs[i] = [pc |-> "done", op |-> "start", result |-> "returned"]
        /\ invs[j] = [pc |-> "done", op |-> "start", result |-> "in_progress"]

\* C21: when the API probe of the primary application escalates after two
\* consecutive failed checks, it calls restart() and, if restart() fails,
\* goes on to rebuild().
ApiRestartThenRebuild ==
    [][(/\ cache[OPP_WATCHDOG_API] = 1
        /\ tick'[OPP_WATCHDOG_API].check = "fail") =>
            /\ tick'[OPP_WATCHDOG_API].restart \in RestartOutcomes
            /\ tick'[OPP_WATCHDOG_API].restart # "ok" =>
                  tick'[OPP_WATCHDOG_API].rebuild = "issued"]_vars

\* C21, amended: when the API probe escalates it calls restart() once
\* and, whether restart() returns or fails, issues nothing more in that
\* tick: no rebuild().
ApiRestartOnly ==
    [][(/\ cache[OPP_WATCHDOG_API] = 1
        /\ tick'[OPP_WATCHDOG_API].check = "fail") =>
            /\ tick'[OPP_WATCHDOG_API].restart \in RestartOutcomes
            /\ tick'[OPP_WATCHDOG_API].rebuild = "none"]_vars

\* the restart() of the escalation failed, the error was caught and the
\* tick ended with no rebuild()
ApiRestartOnlyWitness ==
    /\ tick[OPP_WATCHDOG_API].check = "fail"
    /\ tick[OPP_WATCHDOG_API].restart = "caught"
    /\ tick[OPP_WATCHDOG_API].rebuild = "none"
    /\ cache[OPP_WATCHDOG_API] = 0

\* C22: while CoreState is FREEZE no scheduled watchdog, update or refresh
\* task issues start(), restart(), rebuild() or update() on a component:
\* a container probe that fires issues nothing and the supervisor update
\* task does not update the supervisor.
FrozenMaintenance ==
    [][coreState = "FREEZE" =>
          /\ dockerTick' # dockerTick =>
                \A c \in DOMAIN dockerTick'.seen : dockerTick'.seen[c].actions = <<>>
          /\ stopTask' = "created" => stopTask = "created"]_vars

\* C23: no error of a component control call (start, restart, rebuild,
\* loop detection) made by a watchdog probe leaves the probe: every tick
\* of a container probe returns normally.
ProbeSurvives == dockerTick.exit = "return"

\* C24: for a version below the early-UI threshold the wait for the
\* primary application ends within wait_boot plus one poll interval: it
\* is never still waiting after more polls than wait_boot holds, and it
\* ends by the API answering, by the container exiting or by the timeout;
\* only at or above the threshold may it go on.
WaitBounded ==
    /\ (boot.pc = "waiting" /\ boot.timeout) => boot.polls <= WaitBoot
    /\ (boot.pc \in {"returned", "crashed"} /\ boot.timeout) =>
          boot.polls <= WaitBoot + 1
    /\ boot.reason = "timeout" => boot.timeout

\* C24, amended: the same, with the time counted from the start of the
\* wait or from the poll that found the last database migration or pip
\* installation finished, and only while none of the two is in progress:
\* as long as the marker file of one exists the wait goes on, whatever
\* time has passed.
WaitBoundedSinceProgress ==
    /\ (/\ boot.pc = "waiting" /\ boot.timeout
        /\ ~boot.migration_progress /\ ~boot.pip_progress) =>
            boot.since <= WaitBoot
    /\ (boot.pc \in {"returned", "crashed"} /\ boot.timeout
          /\ ~boot.migration_progress /\ ~boot.pip_progress) =>
            boot.since <= WaitBoot + 1
    /\ boot.reason = "timeout" => boot.timeout /\ boot.since = WaitBoot + 1

\* a wait below the threshold ended by the timeout after a migration had
\* kept it going for longer than wait_boot
WaitBoundedWitness ==
    /\ boot.pc = "crashed" /\ boot.reason = "timeout"
    /\ boot.polls > WaitBoot + 1
    /\ errorState

ObserverSecondMissRebuilds ==
    [][(/\ lastTask' = "watchdog_observer_application"
        /\ observerTick'.rebuild # "none") =>
            /\ observerLast = "fail"
            /\ observerTick'.check = "fail"]_vars

\* C30, amended: the observer application probe triggers rebuild() at
\* every failed runtime check it performs, the first one included, and at
\* no other tick: not when the check succeeds and not when an operation on
\* the observer is in progress, in which case it performs no check.
ObserverMissRebuilds ==
    [][lastTask' = "watchdog_observer_application" =>
          /\ observerTick'.rebuild # "none" <=> observerTick'.check = "fail"
          /\ observerTick'.check = "fail" <=>
                (~observer.in_progress /\ observer.ping # "200")
          /\ observerTick'.check = "none" <=> observer.in_progress]_vars

\* the probe found the observer not answering in time and rebuilt it
ObserverMissRebuildsWitness ==
    /\ lastTask = "watchdog_observer_application"
    /\ observerTick = [check |-> "fail", rebuild |-> "ok"]
    /\ observer.ping = "timeout"

\* every timer that was due by now has fired
AllFired ==
    \A t \in SchedTasks : ~(sched[t].state = "armed" /\ sched[t].due <= clock)

\* no invocation so far took longer than the time unit it started in
AllPrompt == \A t \in SchedTasks : ~sched[t].late

\* C26: with task A registered at interval 1 and task B at interval 2,
\* after 2 time units A has fired twice and B once, whether or not the
\* first firing of A raised an exception (every invocation completing
\* within the time unit it started in).
SchedulerIsolation ==
    (clock = 2 /\ AllFired /\ AllPrompt) =>
        /\ sched["A"].fired = 2
        /\ sched["B"].fired = 1

\* after 2 units A fired twice and B once, and the first firing of A had
\* raised an exception
SchedulerIsolationWitness ==
    /\ clock = 2 /\ AllFired /\ AllPrompt
    /\ 1 \in sched["A"].raised
    /\ sched["A"].fired = 2
    /\ sched["B"].fired = 1

\* the steps of do_restore_full the order is stated of
RestoreFullOrder ==
    <<"shutdown", "restore_folders", "restore_dockerconfig", "create_task",
      "restore_repositories", "uninstall_delta", "restore_addons",
      "await_task", "core_start">>

\* the steps of RestoreFullOrder that call c has completed, in the order
\* in which it completed them
OrderedSteps(c) ==
    SelectSeq(calls[c].trace,
              LAMBDA s : \E i \in DOMAIN RestoreFullOrder : RestoreFullOrder[i] = s)

\* C27: in do_restore_full the steps run in this order, each after the
\* one before it completed: coordinated shutdown, restore folders, restore
\* Docker config, create the update task of the primary application,
\* restore repositories, uninstall the add-ons absent from the snapshot,
\* restore the add-ons of the snapshot, await the update task, start the
\* primary application.
RestoreFullInOrder ==
    \A c \in Calls :
        (calls[c].op = "do_restore_full" /\ calls[c].pc = "run") =>
            /\ Len(OrderedSteps(c)) <= Len(RestoreFullOrder)
            /\ OrderedSteps(c) = SubSeq(RestoreFullOrder, 1, Len(OrderedSteps(c)))

\* a full restore has started the primary application as its ninth step
RestoreFullInOrderWitness ==
    \E c \in Calls :
        /\ calls[c].op = "do_restore_full" /\ calls[c].pc = "run"
        /\ OrderedSteps(c) = RestoreFullOrder
        /\ calls[c].todo = <<"aexit">>

\* statement a comes before statement b wherever both are in the trace of c
StatementBefore(c, a, b) ==
    \A i, j \in DOMAIN calls[c].trace :
        (calls[c].trace[i] = a /\ calls[c].trace[j] = b) => i < j

\* C28: in every snapshot or restore operation the snapshot lock is
\* acquired before CoreState is set to FREEZE, and on completion the lock
\* is released before CoreState is set back to RUNNING.
LockAroundFreeze ==
    \A c \in Calls :
        /\ StatementBefore(c, "acquire", "freeze")
        /\ StatementBefore(c, "release", "running")

\* C28, amended: in every snapshot or restore operation CoreState is set
\* to FREEZE before the snapshot lock is acquired, and on completion
\* CoreState is set back to RUNNING before the lock is released.
FreezeAroundLock ==
    \A c \in Calls :
        /\ StatementBefore(c, "freeze", "acquire")
        /\ StatementBefore(c, "running", "release")
        /\ calls[c].pc = "run" => SubSeq(calls[c].trace, 1, 2) = <<"freeze", "acquire">>
        /\ (calls[c].pc = "done" /\ calls[c].reason \in {"none", "error"}) =>
                calls[c].trace = <<"running", "release">>

\* one operation has left through its finally block and another one has
\* entered its body since
FreezeAroundLockWitness ==
    \E c, d \in Calls :
        /\ calls[c].pc = "done" /\ calls[c].result = Success(calls[c].op)
        /\ calls[c].trace = <<"running", "release">>
        /\ calls[d].pc = "run"
        /\ SubSeq(calls[d].trace, 1, 2) = <<"freeze", "acquire">>
        /\ Len(calls[d].trace) > 2

\* C29: the Snapshot Manager changes CoreState only from RUNNING to FREEZE
\* and from FREEZE to RUNNING, whatever the other writers of CoreState do
\* in between: it never replaces a state other than FREEZE by RUNNING and
\* never enters FREEZE from a state other than RUNNING.
SnapshotOnlyFreezes ==
    [][(calls' # calls /\ coreState' # coreState) =>
          \/ coreState = "RUNNING" /\ coreState' = "FREEZE"
          \/ coreState = "FREEZE" /\ coreState' = "RUNNING"]_vars

\* C31: in do_restore_full a failure to uninstall an add-on that is absent
\* from the snapshot does not abort the restore: the other absent add-ons
\* are still uninstalled, and the call reports a failure only when
\* another step raised; when it reports success the add-ons of the
\* snapshot are installed.
UninstallFailureTolerated ==
    [][(lastOp'.op = "do_restore_full" /\ lastOp'.failed # {}) =>
          /\ lastOp'.failed \subseteq installed'
          /\ lastOp'.removed = (installed \ archived.addons) \ lastOp'.failed
          /\ lastOp'.removed \cap installed' = {}
          /\ lastOp'.result = "True" <=> lastOp'.raised = "none"
          /\ lastOp'.result = "False" <=> lastOp'.raised # "none"
          /\ lastOp'.raised \in {"none", "core_start"} =>
                archived.addons \subseteq installed']_vars

\* a full restore reported success after one absent add-on could not be
\* uninstalled and another one was
UninstallFailureToleratedWitness ==
    /\ lastOp.op = "do_restore_full" /\ lastOp.result = "True"
    /\ lastOp.failed # {} /\ lastOp.removed # {}
    /\ lastOp.failed \subseteq installed

\* statement x is in the sequence t
In(x, t) == \E i \in DOMAIN t : t[i] = x

\* C32: in do_restore_partial the update task of the primary application
\* is awaited only after the requested folders and add-ons have been
\* restored; afterwards, whether or not the primary application was
\* requested, the primary application is started if and only if
\* is_running() found it not running, the API is checked, and one
\* restart() is issued if and only if the check found it unreachable.
RestorePartialEnds ==
    \A c \in Calls :
        (calls[c].op = "do_restore_partial" /\ calls[c].pc = "run") =>
            LET t == calls[c].trace
                todo == calls[c].todo
            IN /\ In("await_task", t) =>
                     /\ In("create_task", t)
                     /\ ~In("restore_folders", todo)
                     /\ ~In("restore_repositories", todo)
                     /\ ~In("restore_addons", todo)
               /\ In("is_running", t) =>
                     /\ ~In("await_task", todo)
                     /\ calls[c].seen_running \in BOOLEAN
                     /\ calls[c].seen_running <=>
                            ~(In("core_start", t) \/ In("core_start", todo))
               /\ In("is_running", t) \/ In("is_running", todo)
               /\ In("check_api_state", t) \/ In("check_api_state", todo)
               /\ In("check_api_state", t) =>
                     /\ ~In("core_start", todo)
                     /\ calls[c].seen_api \in BOOLEAN
                     /\ calls[c].seen_api <=>
                            ~(In("core_restart", t) \/ In("core_restart", todo))
               /\ Cardinality({i \in DOMAIN t : t[i] = "core_restart"}) <= 1
               /\ In("core_restart", t) => todo = <<"aexit">>

\* a partial restore with the primary application requested awaited the
\* update after folders and add-ons, started the application it found
\* down and restarted it once for the unreachable API
RestorePartialEndsWitness ==
    \E c \in Calls :
        /\ calls[c].op = "do_restore_partial" /\ calls[c].pc = "run"
        /\ StatementBefore(c, "restore_folders", "await_task")
        /\ StatementBefore(c, "restore_addons", "await_task")
        /\ In("restore_folders", calls[c].trace)
        /\ In("restore_addons", calls[c].trace)
        /\ In("await_task", calls[c].trace)
        /\ In("core_start", calls[c].trace)
        /\ In("core_restart", calls[c].trace)
        /\ calls[c].todo = <<"aexit">>

\* C33: in every reachable state the retry counter stored for a component,
\* the API key or an add-on slug, is 0 or 1.
CounterZeroOrOne == \A k \in CacheKeys : cache[k] \in {0, 1}

\* the counter of the API and of an add-on stand at 1 after a first miss
\* of each
CounterZeroOrOneWitness ==
    /\ cache[OPP_WATCHDOG_API] = 1
    /\ \E a \in Addons : cache[a] = 1 /\ last[a] = "fail"

\* C34: in one tick of the add-on application probe every installed
\* add-on that is watched, recorded as started and idle has its
\* application check performed, whatever the checks of the other add-ons
\* in the same tick give.
AllDueAddonsChecked == \A a \in Addons : tick[a].check # "skipped"

\* the latest tick of the container probe issued start() on the primary
\* application
StartIssued ==
    /\ dockerTick.probe = "openpeerpower"
    /\ In("start", dockerTick.seen[1].actions)

\* the container of the primary application is failed, watched and idle
FailedWatchedIdle ==
    container.is_failed /\ container.watchdog /\ ~container.in_progress

\* C35: if the container of the primary application is in a failed state,
\* its watchdog flag is enabled and no operation is in progress on it,
\* then, the container probe being scheduled fairly, a start() is
\* eventually issued on it (or the container leaves that condition).
FailedEventuallyStarted ==
    FailedWatchedIdle ~> (StartIssued \/ ~FailedWatchedIdle)

\* C35, amended: if the container of the primary application is in a
\* failed state, its watchdog flag is enabled, no operation is in progress
\* on it and error_state is not set, then, the container probe being
\* scheduled fairly, a start() is eventually issued on it (or the
\* container leaves that condition).
HealthyFailedEventuallyStarted ==
    (FailedWatchedIdle /\ ~errorState) ~>
        (StartIssued \/ ~(FailedWatchedIdle /\ ~errorState))

\* the probe issued start() on the failed container and start() brought
\* the application up
HealthyFailedEventuallyStartedWitness ==
    /\ StartIssued
    /\ dockerTick.seen[1].start = "ok"
    /\ container.running /\ ~container.is_failed /\ ~errorState

\* C36: after an update() in which the new version failed to start and
\* the rollback succeeded, the recorded version is the version recorded
\* before the call and error_state is false.
RollbackRestores ==
    (/\ Len(lastUpdate.attempts) = 2
     /\ lastUpdate.attempts[1].outcome \in {"run_error", "crash"}
     /\ lastUpdate.attempts[2].outcome = "ok") =>
        /\ version = lastUpdate.previous
        /\ ~errorState

\* C37: the add-on refresh task writes STOPPED to the recorded state of an
\* add-on only if, at the moment of the write, the add-on is not running
\* and has no operation in progress, also when a start of the add-on
\* begins while the task waits for is_running().
RefreshWritesFresh ==
    [][(refresh'.wrote /\ ~refresh.wrote) =>
          /\ ~addonInfo[refresh'.addon].running
          /\ ~addonInfo[refresh'.addon].in_progress]_vars

\* C38: while reload() of the snapshot catalog is in progress, get(slug)
\* returns every snapshot that was in the catalog before the reload and
\* whose archive still exists.
ReloadKeepsRetrievable == lastGet.expected => lastGet.found

\* C39: when import_snapshot returns None, the catalog entry and the
\* archive of every snapshot registered before are unchanged, also of the
\* one with the slug of the imported file.
FailedImportChangesNothing ==
    importing.result = "None" => importing.changed = {}

\* The handler of connection c opened the connection to the primary
\* application or forwarded a message.
Relayed(c) == ws[c].opened \/ ws[c].to_core \/ ws[c].to_client

OnlyAllowedRelayed ==
    \A c \in Connections :
        Relayed(c) => ws[c].first = "token_allowed" /\ "auth_ok" \in ws[c].sent

\* C40 as stated: the WebSocket proxy opens the connection to the primary
\* application and forwards only after the first message of the client
\* carried the token of an add-on allowed to access the API; after any
\* other first message auth_invalid is sent, nothing is forwarded and the
\* handler returns.
OtherFirstMessageRefused ==
    /\ OnlyAllowedRelayed
    /\ \A c \in Connections :
          ws[c].first \notin {"none", "token_allowed"} =>
              /\ "auth_invalid" \in ws[c].sent
              /\ ~Relayed(c)
              /\ ws[c].ended = "returned"

\* C40, amended: the connection to the primary application is opened and
\* messages are forwarded only after the first message of the client
\* carried the token of an add-on allowed to access the API; after any
\* other first message nothing is forwarded in either direction and the
\* handler ends: with auth_invalid and a return when the message was a
\* JSON object, with a return and no auth_invalid when it was not JSON,
\* and with the error of the read when it was no text or no JSON object.
FirstMessageDecides ==
    /\ OnlyAllowedRelayed
    /\ \A c \in Connections :
          ws[c].first \notin {"none", "token_allowed"} =>
              /\ ~Relayed(c)
              /\ "auth_ok" \notin ws[c].sent
              /\ ws[c].ended =
                    IF Received(ws[c].first) \in {"TypeError", "AttributeError"}
                    THEN "raised" ELSE "returned"
              /\ "auth_invalid" \in ws[c].sent <=> Received(ws[c].first) = "ok"

FirstMessageDecidesWitness ==
    /\ ws[1].to_core /\ ws[1].to_client
    /\ ws[2].first = "token_denied" /\ ws[2].ended = "returned"

====
